---------------------------- MODULE Spec2Model ----------------------------
(***************************************************************************)
(* ISP customer portal backend (dishnetafrica/isp-portal).                 *)
(*                                                                         *)
(* Nine parts of the backend are modelled, each with its own               *)
(* specification over the shared variables:                                *)
(*   SpecLogin   - api/auth.py: login against the billing platform and the *)
(*                 customers table of core/database.py                     *)
(*   SpecToken   - api/auth.py, api/billing.py: tokens issued by login,    *)
(*                 the clock, verify_token on two protected routes         *)
(*   SpecVoucher - api/mikrotik.py, api/hotspot.py: voucher batches pushed *)
(*                 to a router as hotspot users                            *)
(*   SpecPrint   - api/hotspot.py: one voucher batch and the print         *)
(*                 rendering of voucher lists                              *)
(*   SpecPool    - api/mikrotik.py: router operations on the worker pool   *)
(*                 and the connections they open                           *)
(*   SpecProbe   - api/devices.py: the four concurrent device checks of    *)
(*                 detect_device                                           *)
(*   SpecRefresh - api/auth.py: a login and chains of token refreshes      *)
(*   SpecAcs     - api/tr069.py: WiFi reads and updates of a CPE through   *)
(*                 the auto-configuration server                           *)
(*   SpecWifi    - api/mikrotik.py: the WiFi update of a router            *)
(***************************************************************************)
EXTENDS Integers, Sequences, FiniteSets, TLC

VARIABLES
    \* ---- api/auth.py + core/database.py ----
    customers,      \* rows of table "customers": set of [id, uisp_customer_id, email]
    nextId,         \* next value of the customers.id sequence
    now,            \* datetime.utcnow(), in hours
    lpc,            \* per login request: position in login()
    lreq,           \* per login request: LoginRequest [username, password]
    auth_result,    \* per login request: <<>> or <<result of UISPService.authenticate>>
    lcustomer,      \* per login request: <<>> or <<the Customer row held by the handler>>
    lresp,          \* per login request: the HTTP response
    vresp,          \* GET /api/auth/me: the last request's header and response
    ppc,            \* GET /api/billing/profile: "idle" or "platform" (awaiting it)
    psent,          \* ... the x-auth-token header sent to the billing platform
    preq,           \* ... the request: its Authorization header, when served
    presp,          \* ... the HTTP response
    refreshed,      \* POST /api/auth/refresh: the tokens it has returned
    rresp,          \* ... the last request's header, time and response
    \* ---- api/mikrotik.py + api/hotspot.py ----
    routerUsers,    \* /ip/hotspot/user on the router: set of user records
    bpc,            \* per voucher batch: position in the endpoint / _generate
    breq,           \* per voucher batch: VoucherRequest [count, profile, prefix, validity]
    bi,             \* per voucher batch: loop index i of _generate
    bcode,          \* per voucher batch: the code drawn in the current iteration
    vouchers,       \* per voucher batch: the local list "vouchers"
    bresp,          \* per voucher batch: the HTTP response
    prreq,          \* POST /print-vouchers: the last BulkVoucherPrint request
    prresp,         \* ... and its response
    submitted,      \* router operations handed to _run_sync so far
    queued,         \* work items waiting in the executor's queue
    connecting,     \* worker threads inside _connect
    calling,        \* worker threads making router calls on their connection
    unclosed,       \* connections of ended operations that are still open
    \* ---- api/devices.py ----
    dpc,            \* detect_device: "idle", "gather", "done"
    dip,            \* request.gateway_ip
    net,            \* what the network answers during this request
    cpc,            \* per check: position inside the check coroutine
    caps,           \* detect_mikrotik: local list "capabilities"
    results,        \* asyncio.gather result slots, one per check, in argument order
    first_done,     \* the check that completed first (0: none yet)
    dresp,          \* response of detect_device
    \* ---- api/tr069.py ----
    apc,            \* CPE WiFi request: position in the endpoint and the service
    areq,           \* ... the request: header, time served, route, device id, settings
    adevice,        \* ... the device document held by the service method
    ai,             \* ... index of the path being read / of the field being set
    acalls,         \* ... the remote calls made so far, in order, with their answers
    aresult,        \* ... the map "result" of get_device_parameters
    atasks,         \* ... the list "tasks" of update_wifi_settings (parameter names)
    acsTasks,       \* tasks queued on the auto-configuration server
    aresp,          \* ... the HTTP response
    \* ---- api/mikrotik.py, PUT /wifi ----
    wInterfaces,    \* /interface/wireless on the router: name -> ssid
    wProfiles,      \* /interface/wireless/security-profiles: name -> pre-shared key
    wpc,            \* position in update_wifi_settings
    wreq,           \* the WifiSettings of the request
    wlist,          \* wifi["interfaces"]: the interface names the endpoint loops over
    wi,             \* index of that loop
    wresults,       \* the dict "results"
    wresp           \* the HTTP response status

loginVars   == <<customers, nextId, now, lpc, lreq, auth_result, lcustomer, lresp>>
voucherVars == <<routerUsers, bpc, breq, bi, bcode, vouchers, bresp>>
probeVars   == <<dpc, dip, net, cpc, caps, results, first_done, dresp>>
tokenVars   == <<vresp, ppc, psent, preq, presp>>
printVars   == <<prreq, prresp>>
poolVars    == <<submitted, queued, connecting, calling, unclosed>>
refreshVars == <<refreshed, rresp>>
wifiVars    == <<wInterfaces, wProfiles, wpc, wreq, wlist, wi, wresults, wresp>>
acsVars     == <<apc, areq, adevice, ai, acalls, aresult, atasks, acsTasks, aresp>>
vars        == <<loginVars, voucherVars, probeVars, tokenVars, printVars, poolVars,
                 acsVars, refreshVars, wifiVars>>

(***************************************************************************)
(* Bounds                                                                  *)
(***************************************************************************)
MaxLogins  == 2     \* login requests in flight
MaxCount   == 2     \* largest VoucherRequest.count
MaxSuffix  == 2     \* number of distinct random suffixes the generator can draw
MaxTicks   == 3     \* clock advances observed
MaxRequests == 12   \* router operations requested

Logins  == 1..MaxLogins

\* Two voucher batches share one router: they are issued one after the
\* other or run at the same time on two threads of the executor.
Batches == {1, 2}

(***************************************************************************)
(* Session/identity layer: api/auth.py, core/database.py                   *)
(***************************************************************************)

\* The billing platform (external): its users, by username.  clientId 0
\* stands for a user without clientId (an operator, not a client); email
\* "" stands for a user record without the "email" key.
Usernames == {"alice", "bob", "admin"}
Passwords == {"good", "bad"}

PlatformUser(u) ==
    CASE u = "alice" -> [clientId |-> 7, email |-> "alice@x"]
      [] u = "bob"   -> [clientId |-> 8, email |-> ""]
      [] OTHER       -> [clientId |-> 0, email |-> "admin@x"]

PlatformAccepts(u, p) == p = "good"

\* What the platform's HTTP endpoints answer during one authenticate():
\*   up       - FALSE: the connection fails (httpx raises)
\*   user     - GET /user answers 200
\*   customer - GET /clients/{id} answers 200
NetOutcomes == [up : BOOLEAN, user : BOOLEAN, customer : BOOLEAN]

JWT_EXPIRATION_HOURS == 24
SECRET_KEY == "k-process"

\* UISPService.get_customer: the client record, or {} when not 200.
\* The record is reduced to its "id" key; id 0 stands for the missing key.
get_customer(customer_id, n) ==
    IF n.customer THEN [id |-> customer_id] ELSE [id |-> 0]

\* UISPService.authenticate: kind "ok" carries the returned dict, kind
\* "http401" is HTTPException(401, "Invalid UISP credentials"), kind "exc"
\* is any other exception raised by the HTTP client.
authenticate(username, password, n) ==
    LET user_data == PlatformUser(username)
        failed(k) == [kind |-> k, token |-> "", user |-> user_data,
                      customer |-> [id |-> 0]]
    IN  IF ~n.up THEN failed("exc")
        ELSE IF PlatformAccepts(username, password)      \* status_code == 200
                /\ n.user                                 \* user_response 200
                /\ user_data.clientId # 0                 \* if customer_id:
             THEN [kind     |-> "ok",
                   token    |-> "x-auth-" \o username,
                   user     |-> user_data,
                   customer |-> get_customer(user_data.clientId, n)]
             ELSE failed("http401")

\* str(auth_result["customer"].get("id", ""))
uisp_customer_id_of(res) ==
    IF res.customer.id = 0 THEN "" ELSE ToString(res.customer.id)

\* auth_result["user"].get("email", request.username)
email_of(res, request) ==
    IF res.user.email = "" THEN request.username ELSE res.user.email

\* select(Customer).where(Customer.uisp_customer_id == uisp_customer_id)
\* followed by scalar_one_or_none(): <<>> is None.
select_customer(table, uid) ==
    LET rows == {c \in table : c.uisp_customer_id = uid}
    IN  IF rows = {} THEN <<>> ELSE <<CHOOSE c \in rows : TRUE>>

\* The unique constraints of table "customers" (uisp_customer_id, email).
UniqueViolation(table, row) ==
    \E c \in table : \/ c.uisp_customer_id = row.uisp_customer_id
                     \/ c.email = row.email

\* create_access_token: a token is the data it was created from, the expiry
\* instant put under "exp" by to_encode.update, and the key that signed it.
create_access_token(data, t) ==
    [payload |-> data, exp |-> t + JWT_EXPIRATION_HOURS, key |-> SECRET_KEY]

\* The claims a token carries: data.copy() updated with {"exp": expire}.
claims_of(token) ==
    [f \in DOMAIN token.payload \cup {"exp"} |->
        IF f = "exp" THEN token.exp ELSE token.payload[f]]

\* jwt.decode(token, key, algorithms=[...]) at time t.  The signature is
\* verified first (InvalidSignatureError, DecodeError: "invalid"), the
\* "exp" claim after it (ExpiredSignatureError: "expired").
jwt_decode(token, key, t) ==
    IF token.key # key THEN [ok |-> "invalid", payload |-> claims_of(token)]
    ELSE IF token.exp <= t THEN [ok |-> "expired", payload |-> claims_of(token)]
    ELSE [ok |-> "ok", payload |-> claims_of(token)]

NoRequest == [username |-> "", password |-> ""]
NoResponse == [status |-> 0, detail |-> "", token |-> <<>>]
HTTPException(code, msg) == [status |-> code, detail |-> msg, token |-> <<>>]

InitLogin ==
    /\ customers = {}
    /\ nextId = 1
    /\ now = 0
    /\ lpc = [r \in Logins |-> "idle"]
    /\ lreq = [r \in Logins |-> NoRequest]
    /\ auth_result = [r \in Logins |-> <<>>]
    /\ lcustomer = [r \in Logins |-> <<>>]
    /\ lresp = [r \in Logins |-> NoResponse]

\* POST /login arrives.
LoginRequest(r, u, p) ==
    /\ lpc[r] = "idle"
    /\ lreq' = [lreq EXCEPT ![r] = [username |-> u, password |-> p]]
    /\ lpc' = [lpc EXCEPT ![r] = "authenticate"]
    /\ UNCHANGED <<customers, nextId, now, auth_result, lcustomer, lresp>>

\* auth_result = await uisp_service.authenticate(...)
LoginAuthenticate(r, n) ==
    /\ lpc[r] = "authenticate"
    /\ LET res == authenticate(lreq[r].username, lreq[r].password, n)
       IN  CASE res.kind = "ok" ->
                   /\ auth_result' = [auth_result EXCEPT ![r] = <<res>>]
                   /\ lpc' = [lpc EXCEPT ![r] = "select"]
                   /\ UNCHANGED lresp
             [] res.kind = "http401" ->       \* except HTTPException: raise
                   /\ lresp' = [lresp EXCEPT ![r] =
                                   HTTPException(401, "Invalid UISP credentials")]
                   /\ lpc' = [lpc EXCEPT ![r] = "done"]
                   /\ UNCHANGED auth_result
             [] OTHER ->                      \* except Exception
                   /\ lresp' = [lresp EXCEPT ![r] =
                                   HTTPException(401, "Authentication failed")]
                   /\ lpc' = [lpc EXCEPT ![r] = "done"]
                   /\ UNCHANGED auth_result
    /\ UNCHANGED <<customers, nextId, now, lreq, lcustomer>>

\* result = await db.execute(select(...)); customer = result.scalar_one_or_none()
LoginSelect(r) ==
    /\ lpc[r] = "select"
    /\ LET found == select_customer(customers, uisp_customer_id_of(auth_result[r][1]))
       IN  /\ lcustomer' = [lcustomer EXCEPT ![r] = found]
           /\ lpc' = [lpc EXCEPT ![r] = IF found = <<>> THEN "commit" ELSE "token"]
    /\ UNCHANGED <<customers, nextId, now, lreq, auth_result, lresp>>

\* An INSERT into a table without the unique constraints.
insert_customer_unchecked(table, row) == table \cup {row}

\* The INSERT issued by db.add(customer); await db.commit(); db.refresh():
\* the table afterwards.  A row that breaks a unique constraint is refused.
insert_customer(table, row) ==
    IF UniqueViolation(table, row) THEN table ELSE table \cup {row}

LoginCommit(r) ==
    /\ lpc[r] = "commit"
    /\ LET res == auth_result[r][1]
           row == [id |-> nextId,
                   uisp_customer_id |-> uisp_customer_id_of(res),
                   email |-> email_of(res, lreq[r])]
           table == insert_customer(customers, row)
       IN  /\ customers' = table
           /\ nextId' = nextId + 1
           /\ IF row \in table
              THEN /\ lcustomer' = [lcustomer EXCEPT ![r] = <<row>>]
                   /\ lpc' = [lpc EXCEPT ![r] = "token"]
                   /\ UNCHANGED lresp
              ELSE \* IntegrityError -> except Exception
                   /\ lresp' = [lresp EXCEPT ![r] =
                                   HTTPException(401, "Authentication failed")]
                   /\ lpc' = [lpc EXCEPT ![r] = "done"]
                   /\ UNCHANGED lcustomer
    /\ UNCHANGED <<now, lreq, auth_result>>

\* access_token = create_access_token({...}); return LoginResponse(...)
LoginToken(r) ==
    /\ lpc[r] = "token"
    /\ LET res == auth_result[r][1]
           tok == create_access_token(
                    [customer_id |-> lcustomer[r][1].id,
                     uisp_customer_id |-> uisp_customer_id_of(res),
                     email |-> email_of(res, lreq[r]),
                     uisp_token |-> res.token], now)
       IN  lresp' = [lresp EXCEPT ![r] =
                        [status |-> 200, detail |-> "", token |-> <<tok>>]]
    /\ lpc' = [lpc EXCEPT ![r] = "done"]
    /\ UNCHANGED <<customers, nextId, now, lreq, auth_result, lcustomer>>


(***************************************************************************)
(* Token verification: api/auth.py verify_token and the routes that depend *)
(* on it (GET /api/auth/me, GET /api/billing/profile)                      *)
(***************************************************************************)

\* SECRET_KEY defaults to secrets.token_urlsafe(32), drawn when the process
\* starts: a token issued by an earlier start, or forged, carries another key.
OTHER_KEY == "k-earlier"

\* A credential that is not a JWT at all (the empty string included):
\* jwt.decode raises DecodeError whatever the key.
NotAJwt ==
    [payload |-> [customer_id |-> 0, uisp_customer_id |-> "", email |-> ""],
     exp |-> 0, key |-> ""]

\* A token of an earlier process start, issued at time 0 to customer 1.
ForeignToken ==
    [payload |-> [customer_id |-> 1, uisp_customer_id |-> "7",
                  email |-> "alice@x", uisp_token |-> "x-auth-alice"],
     exp |-> JWT_EXPIRATION_HOURS, key |-> OTHER_KEY]

\* dict.get(k, default)
get(d, k, default) == IF k \in DOMAIN d THEN d[k] ELSE default

\* class TokenPayload(BaseModel): the declared fields, all required; keys
\* that are not declared are ignored by the model.
TokenFields == {"customer_id", "uisp_customer_id", "email", "exp"}
TokenPayload(claims) == [f \in TokenFields |-> claims[f]]

NoTokenPayload == <<>>
Rejected(code, msg) == [status |-> code, detail |-> msg, token |-> NoTokenPayload]

\* verify_token with "except jwt.InvalidTokenError" placed first:
\* ExpiredSignatureError is one of its subclasses.
verify_token_invalid_first(authorization, t) ==
    IF authorization = <<>> THEN Rejected(422, "Field required")
    ELSE LET decoded == jwt_decode(authorization[1], SECRET_KEY, t)
         IN  IF decoded.ok # "ok" THEN Rejected(401, "Invalid token")
             ELSE [status |-> 200, detail |-> "",
                   token |-> <<TokenPayload(decoded.payload)>>]

\* verify_token handing the raw token on to the handler under "_token".
verify_token_keeps_token(authorization, t) ==
    IF authorization = <<>> THEN Rejected(422, "Field required")
    ELSE LET decoded == jwt_decode(authorization[1], SECRET_KEY, t)
         IN  CASE decoded.ok = "expired" -> Rejected(401, "Token has expired")
               [] decoded.ok = "invalid" -> Rejected(401, "Invalid token")
               [] OTHER -> [status |-> 200, detail |-> "",
                            token |-> <<[f \in TokenFields \cup {"_token"} |->
                                           IF f = "_token" THEN authorization[1]
                                           ELSE decoded.payload[f]]>>]

\* verify_token(authorization: str = Header(...)) at time t: the response the
\* client gets when the dependency fails, or status 200 and the TokenPayload
\* handed to the route.  authorization is <<>> when the request carries no
\* Authorization header, <<c>> for the header "Bearer c"
\* (authorization.replace("Bearer ", "") leaves c).  A missing required header
\* is refused by the framework's request validation (422) before the body of
\* verify_token runs; a TokenPayload that cannot be built raises a
\* ValidationError, which no except clause here catches (main.py: 500).
verify_token(authorization, t) ==
    IF authorization = <<>> THEN Rejected(422, "Field required")
    ELSE LET decoded == jwt_decode(authorization[1], SECRET_KEY, t)
         IN  CASE decoded.ok = "expired" -> Rejected(401, "Token has expired")
               [] decoded.ok = "invalid" -> Rejected(401, "Invalid token")
               [] ~(TokenFields \subseteq DOMAIN decoded.payload) ->
                        Rejected(500, "Internal server error")
               [] OTHER -> [status |-> 200, detail |-> "",
                            token |-> <<TokenPayload(decoded.payload)>>]

\* get_billing_profile, lines 94-106: the billing-platform session token
\* the handler recovers from the verified TokenPayload.  The bare except
\* turns every failure of jwt.decode into "".
uisp_token_of(token, t) ==
    LET full_token == jwt_decode(get(token, "_token", NotAJwt), SECRET_KEY, t)
    IN  IF full_token.ok = "ok" THEN get(full_token.payload, "uisp_token", "")
        ELSE ""

\* BillingService._request: the response for the platform's answer
\* (0: the HTTP client raised, main.py turns it into 500).
PlatformAnswers == {200, 401, 404, 0}
billing_response(answer) ==
    CASE answer = 401  -> [status |-> 401, detail |-> "UISP session expired"]
      [] answer >= 400 -> [status |-> answer, detail |-> "UISP error"]
      [] answer = 0    -> [status |-> 500, detail |-> "Internal server error"]
      [] OTHER         -> [status |-> 200, detail |-> ""]

\* The subscribers that log in while tokens are exercised, and the login
\* request whose token they then present.
TokenUsers == {"alice", "bob"}
TokenLogins == {1}

\* The tokens login has returned so far.
IssuedTokens == {lresp[r].token[1] : r \in {q \in Logins : lresp[q].status = 200}}

\* What a client can put in the Authorization header.
Headers == {<<>>} \cup {<<c>> : c \in IssuedTokens \cup {ForeignToken, NotAJwt}}

\* A request on a protected route: its Authorization header and the time
\* it is served at.
ProtectedRequest(h, t) == [header |-> h, at |-> t]
NoExchange == [header |-> <<>>, at |-> 0, status |-> 0, detail |-> "",
               token |-> NoTokenPayload]
NoBillingResponse == [status |-> 0, detail |-> ""]

InitToken ==
    /\ vresp = NoExchange
    /\ ppc = "idle"
    /\ psent = ""
    /\ preq = ProtectedRequest(<<>>, 0)
    /\ presp = NoBillingResponse

\* The clock advances (half a token lifetime at a time).
ClockStep == JWT_EXPIRATION_HOURS \div 2
Tick ==
    /\ now < MaxTicks * ClockStep
    /\ now' = now + ClockStep
    /\ UNCHANGED <<customers, nextId, lpc, lreq, auth_result, lcustomer, lresp>>
    /\ UNCHANGED tokenVars

\* GET /api/auth/me with header h: Depends(verify_token), then the route.
get_current_user(h) ==
    /\ LET v == verify_token(h, now)
       IN  vresp' = [header |-> h, at |-> now, status |-> v.status,
                     detail |-> v.detail, token |-> v.token]
    /\ UNCHANGED <<ppc, psent, preq, presp>>
    /\ UNCHANGED loginVars

\* GET /api/billing/profile with header h, up to
\* await billing_service.get_customer_profile(uisp_token, ...).
get_billing_profile(h) ==
    /\ ppc = "idle"
    /\ preq' = ProtectedRequest(h, now)
    /\ LET v == verify_token(h, now)
       IN  IF v.status = 200
           THEN /\ psent' = uisp_token_of(v.token[1], now)
                /\ ppc' = "platform"
                /\ presp' = NoBillingResponse
           ELSE /\ presp' = [status |-> v.status, detail |-> v.detail]
                /\ UNCHANGED <<ppc, psent>>
    /\ UNCHANGED vresp
    /\ UNCHANGED loginVars

\* The billing platform answers the GET /clients/{id} of _request.
BillingAnswer(answer) ==
    /\ ppc = "platform"
    /\ presp' = billing_response(answer)
    /\ ppc' = "idle"
    /\ UNCHANGED <<vresp, psent, preq>>
    /\ UNCHANGED loginVars


\* ---- POST /api/auth/refresh ----

NoRefresh == [header |-> <<>>, at |-> 0, status |-> 0, detail |-> "", token |-> <<>>]

InitRefresh ==
    /\ refreshed = {}
    /\ rresp = NoRefresh

\* What a client can present to /refresh: as on the other protected routes,
\* and the tokens earlier refreshes returned.
RefreshHeaders == Headers \cup {<<c>> : c \in refreshed}

\* A refresh that reads the claims of the presented token without checking
\* its expiry (jwt.decode with verify_exp off).
refresh_token_ignoring_expiry(h) ==
    /\ h # <<>>
    /\ LET decoded == jwt_decode(h[1], SECRET_KEY, h[1].exp - 1)
           new_token == create_access_token(
                            [customer_id      |-> decoded.payload.customer_id,
                             uisp_customer_id |-> decoded.payload.uisp_customer_id,
                             email            |-> decoded.payload.email], now)
       IN  IF decoded.ok # "ok"
           THEN /\ rresp' = [header |-> h, at |-> now, status |-> 401,
                             detail |-> "Invalid token", token |-> <<>>]
                /\ UNCHANGED refreshed
           ELSE /\ rresp' = [header |-> h, at |-> now, status |-> 200,
                             detail |-> "", token |-> <<new_token>>]
                /\ refreshed' = refreshed \cup {new_token}
    /\ UNCHANGED loginVars

\* POST /api/auth/refresh with header h: Depends(verify_token), then a new
\* token created from the three fields of the TokenPayload.
refresh_token(h) ==
    /\ LET v == verify_token(h, now)
       IN  IF v.status # 200
           THEN /\ rresp' = [header |-> h, at |-> now, status |-> v.status,
                             detail |-> v.detail, token |-> <<>>]
                /\ UNCHANGED refreshed
           ELSE LET token == v.token[1]
                    new_token == create_access_token(
                                    [customer_id      |-> token.customer_id,
                                     uisp_customer_id |-> token.uisp_customer_id,
                                     email            |-> token.email], now)
                IN  /\ rresp' = [header |-> h, at |-> now, status |-> 200,
                                 detail |-> "", token |-> <<new_token>>]
                    /\ refreshed' = refreshed \cup {new_token}
    /\ UNCHANGED loginVars


(***************************************************************************)
(* Voucher issuer: api/mikrotik.py, api/hotspot.py                         *)
(***************************************************************************)

\* hotspot.py VOUCHER_PRESETS
PresetNames == {"1hour", "1day", "1week", "1month"}

VOUCHER_PRESETS(p) ==
    CASE p = "1hour"  -> [profile |-> "1hour",  validity |-> "1h",  rate |-> "5M/5M"]
      [] p = "1day"   -> [profile |-> "1day",   validity |-> "1d",  rate |-> "10M/10M"]
      [] p = "1week"  -> [profile |-> "1week",  validity |-> "7d",  rate |-> "10M/10M"]
      [] p = "1month" -> [profile |-> "1month", validity |-> "30d", rate |-> "20M/20M"]

\* request.preset.upper()[:2]
PresetPrefix(p) ==
    CASE p = "1hour"  -> "1H"
      [] p = "1day"   -> "1D"
      [] p = "1week"  -> "1W"
      [] p = "1month" -> "1M"

\* Requests the model sends: preset names (one of them not in the table) and
\* the fields of a VoucherRequest posted to /hotspot/vouchers directly.
PresetInputs == {"1day", "1month", "weekend"}
DirectInputs == {[profile |-> "default", prefix |-> "V", validity |-> "1d"]}
Counts       == 0..MaxCount
Suffixes     == 1..MaxSuffix

\* request.prefix + ''.join(random.choices(alphabet, k=code_length)):
\* s is the outcome of random.choices.
make_code(prefix, s) == <<prefix, s>>

\* "preset" is not a field of VoucherRequest: it records the preset name a
\* quick-voucher request came with ("" on the direct route).
NoVoucherRequest == [count |-> 0, profile |-> "", prefix |-> "", validity |-> "",
                     preset |-> ""]
NoCode == <<"", 0>>
NoBatchResponse == [status |-> 0, detail |-> "", vouchers |-> <<>>]
BatchError(code, msg) == [status |-> code, detail |-> msg, vouchers |-> <<>>]

\* users.add(name=code, password=code, profile=..., limit-uptime=..., comment=...)
\* "by" and "n" are not router fields: they record which batch and which
\* iteration sent the add.
hotspot_user(code, request, b, i) ==
    [name |-> code, password |-> code, profile |-> request.profile,
     limit_uptime |-> request.validity,
     comment |-> "Voucher generated automatically", by |-> b, n |-> i]

\* A record tagged with the validity in place of the profile.
voucher_record_mistagged(code, request) ==
    [code |-> code, profile |-> request.validity, validity |-> request.validity]

\* The dict appended to the list "vouchers".
voucher_record(code, request) ==
    [code |-> code, profile |-> request.profile, validity |-> request.validity]

InitVoucher ==
    /\ routerUsers = {}
    /\ bpc = [b \in Batches |-> "idle"]
    /\ breq = [b \in Batches |-> NoVoucherRequest]
    /\ bi = [b \in Batches |-> 0]
    /\ bcode = [b \in Batches |-> NoCode]
    /\ vouchers = [b \in Batches |-> <<>>]
    /\ bresp = [b \in Batches |-> NoBatchResponse]

\* generate_quick_vouchers with the preset looked up without the membership
\* test (VOUCHER_PRESETS.get with the preset's own name as fallback).
generate_quick_vouchers_unchecked(b, preset, count) ==
    /\ bpc[b] = "idle"
    /\ breq' = [breq EXCEPT ![b] =
                   [count |-> count, profile |-> preset, validity |-> "1d",
                    prefix |-> "V", preset |-> preset]]
    /\ bpc' = [bpc EXCEPT ![b] = "connect"]
    /\ UNCHANGED <<routerUsers, bi, bcode, vouchers, bresp>>

\* hotspot.py generate_quick_vouchers, up to the call of the service.
\* A refused request leaves its QuickVoucher fields (preset, count) in breq;
\* no VoucherRequest is built from it.
generate_quick_vouchers(b, preset, count) ==
    /\ bpc[b] = "idle"
    /\ IF preset \notin PresetNames
       THEN /\ bresp' = [bresp EXCEPT ![b] = BatchError(400, "Invalid preset. Available: 1hour, 1day, 1week, 1month")]
            /\ bpc' = [bpc EXCEPT ![b] = "done"]
            /\ breq' = [breq EXCEPT ![b] =
                           [NoVoucherRequest EXCEPT !.count = count,
                                                    !.preset = preset]]
       ELSE /\ breq' = [breq EXCEPT ![b] =
                          [count    |-> count,
                           profile  |-> VOUCHER_PRESETS(preset).profile,
                           validity |-> VOUCHER_PRESETS(preset).validity,
                           prefix   |-> PresetPrefix(preset),
                           preset   |-> preset]]
            /\ bpc' = [bpc EXCEPT ![b] = "connect"]
            /\ UNCHANGED bresp
    /\ UNCHANGED <<routerUsers, bi, bcode, vouchers>>

\* mikrotik.py generate_vouchers endpoint, up to the call of the service.
generate_vouchers(b, d, count) ==
    /\ bpc[b] = "idle"
    /\ breq' = [breq EXCEPT ![b] =
                   [count |-> count, profile |-> d.profile, validity |-> d.validity,
                    prefix |-> d.prefix, preset |-> ""]]
    /\ bpc' = [bpc EXCEPT ![b] = "connect"]
    /\ UNCHANGED <<routerUsers, bi, bcode, vouchers, bresp>>

\* _generate on a worker thread: api = self._connect(creds); vouchers = []
BatchConnect(b, ok) ==
    /\ bpc[b] = "connect"
    /\ IF ok
       THEN /\ bpc' = [bpc EXCEPT ![b] = "loop"]
            /\ UNCHANGED bresp
       ELSE /\ bresp' = [bresp EXCEPT ![b] =
                            BatchError(503, "Cannot connect to MikroTik")]
            /\ bpc' = [bpc EXCEPT ![b] = "done"]
    /\ UNCHANGED <<routerUsers, breq, bi, bcode, vouchers>>

\* A generator that redraws until the code is not a user of the router.
draw_code_checked(b, s) ==
    /\ bpc[b] = "loop"
    /\ bi[b] < breq[b].count
    /\ \A u \in routerUsers : u.name # make_code(breq[b].prefix, s)
    /\ bcode' = [bcode EXCEPT ![b] = make_code(breq[b].prefix, s)]
    /\ bpc' = [bpc EXCEPT ![b] = "add"]
    /\ UNCHANGED <<routerUsers, breq, bi, vouchers, bresp>>

\* for i in range(request.count): code = request.prefix + random.choices(...)
\* No read of the router's users precedes the draw.
draw_code(b, s) ==
    /\ bpc[b] = "loop"
    /\ bi[b] < breq[b].count
    /\ bcode' = [bcode EXCEPT ![b] = make_code(breq[b].prefix, s)]
    /\ bpc' = [bpc EXCEPT ![b] = "add"]
    /\ UNCHANGED <<routerUsers, breq, bi, vouchers, bresp>>

\* _generate appending the record before the add is answered.
BatchAdd_append_first(b, accepted) ==
    /\ bpc[b] = "add"
    /\ vouchers' = [vouchers EXCEPT ![b] =
                       Append(@, voucher_record(bcode[b], breq[b]))]
    /\ IF accepted
       THEN /\ routerUsers' = routerUsers \cup
                                {hotspot_user(bcode[b], breq[b], b, bi[b])}
            /\ bi' = [bi EXCEPT ![b] = @ + 1]
            /\ bpc' = [bpc EXCEPT ![b] = "loop"]
            /\ UNCHANGED bresp
       ELSE /\ bresp' = [bresp EXCEPT ![b] =
                            BatchError(500, "Internal server error")]
            /\ bpc' = [bpc EXCEPT ![b] = "done"]
            /\ UNCHANGED <<routerUsers, bi>>
    /\ UNCHANGED <<breq, bcode>>

\* users.add(...) answered by the router, then vouchers.append(...).
\* Whether the router accepts an add is the router's decision (profile
\* unknown to it, name already in use, connection lost): the code sends the
\* add in every case.  A rejected add raises out of _generate and the
\* endpoint; main.py's handler answers 500.
BatchAdd(b, accepted) ==
    /\ bpc[b] = "add"
    /\ IF accepted
       THEN /\ routerUsers' = routerUsers \cup
                                {hotspot_user(bcode[b], breq[b], b, bi[b])}
            /\ vouchers' = [vouchers EXCEPT ![b] =
                               Append(@, voucher_record(bcode[b], breq[b]))]
            /\ bi' = [bi EXCEPT ![b] = @ + 1]
            /\ bpc' = [bpc EXCEPT ![b] = "loop"]
            /\ UNCHANGED bresp
       ELSE /\ bresp' = [bresp EXCEPT ![b] =
                            BatchError(500, "Internal server error")]
            /\ bpc' = [bpc EXCEPT ![b] = "done"]
            /\ UNCHANGED <<routerUsers, vouchers, bi>>
    /\ UNCHANGED <<breq, bcode>>

\* return vouchers; the endpoint wraps the list into its response.
BatchReturn(b) ==
    /\ bpc[b] = "loop"
    /\ bi[b] >= breq[b].count
    /\ bresp' = [bresp EXCEPT ![b] =
                    [status |-> 200, detail |-> "", vouchers |-> vouchers[b]]]
    /\ bpc' = [bpc EXCEPT ![b] = "done"]
    /\ UNCHANGED <<routerUsers, breq, bi, bcode, vouchers>>

(***************************************************************************)
(* Print rendering: api/hotspot.py format_vouchers_for_print               *)
(***************************************************************************)

\* A piece of rendered output.  <<t, 0>> is the literal string t; a voucher
\* code <<prefix, s>> (make_code) is the prefix followed by the random part s.
text(t) == <<t, 0>>

PrintFormats == {"thermal", "a4", "card"}

\* The f-string appended to "output" for one record (thermal).
thermal_block(v) ==
    << text("==== WIFI VOUCHER ==== Code: "), v["code"],
       text(" Valid: "), text(get(v, "validity", "N/A")),
       text(" Speed: "), text(get(v, "profile", "Standard")),
       text(" ---- Connect to: YOUR_WIFI_NAME Open browser, enter code ====") >>

\* An A4 block that prints the code again where the speed belongs.
a4_block_code_as_speed(v) ==
    << text("<div class=voucher><div>WiFi Voucher</div><div class=code>"),
       v["code"],
       text("</div><div class=details>Valid for: "),
       text(get(v, "validity", "N/A")),
       text("<br>Speed: "), v["code"],
       text("</div></div>") >>

\* The f-string added to "html" for one record (a4).
a4_block(v) ==
    << text("<div class=voucher><div>WiFi Voucher</div><div class=code>"),
       v["code"],
       text("</div><div class=details>Valid for: "),
       text(get(v, "validity", "N/A")),
       text("<br>Speed: "), text(get(v, "profile", "Standard")),
       text("</div></div>") >>

\* The f-string added to "html" for one record (card).
card_block(v) ==
    << text("<div class=card><h3>WiFi Access</h3><div class=code>"),
       v["code"],
       text("</div><small>Valid: "), text(get(v, "validity", "N/A")),
       text(" | "), text(get(v, "profile", "")),
       text("</small></div>") >>

\* "\n".join(output)
RECURSIVE join(_)
join(output) ==
    IF output = <<>> THEN <<>>
    ELSE IF Len(output) = 1 THEN output[1]
    ELSE output[1] \o <<text("\n")>> \o join(Tail(output))

\* html += block, for each record in turn.
RECURSIVE concat(_)
concat(blocks) ==
    IF blocks = <<>> THEN <<>> ELSE blocks[1] \o concat(Tail(blocks))

NoPrintRequest == [vouchers |-> <<>>, format |-> ""]
NoPrintResponse == [status |-> 0, detail |-> "", format |-> "", content |-> <<>>]
PrintError(code, msg) ==
    [status |-> code, detail |-> msg, format |-> "", content |-> <<>>]
Printed(fmt, content) ==
    [status |-> 200, detail |-> "", format |-> fmt, content |-> content]

\* A handler whose last branch renders thermal output instead of raising.
print_response_default_thermal(list, format) ==
    IF \E i \in 1..Len(list) : "code" \notin DOMAIN list[i]
    THEN PrintError(500, "Internal server error")
    ELSE Printed("text", join([i \in 1..Len(list) |-> thermal_block(list[i])]))

\* The body of format_vouchers_for_print: the response for request.vouchers
\* and request.format.  v['code'] of a record without "code" raises KeyError
\* (main.py: 500); an unknown format reaches the final raise without a look
\* at the records.
print_response(list, format) ==
    IF format \notin PrintFormats THEN PrintError(400, "Invalid format")
    ELSE IF \E i \in 1..Len(list) : "code" \notin DOMAIN list[i]
    THEN PrintError(500, "Internal server error")
    ELSE CASE format = "thermal" ->
                Printed("text", join([i \in 1..Len(list) |-> thermal_block(list[i])]))
           [] format = "a4" ->
                Printed("html",
                        <<text("<!DOCTYPE html>...<div class=voucher-grid>")>>
                        \o concat([i \in 1..Len(list) |-> a4_block(list[i])])
                        \o <<text("</div></body></html>")>>)
           [] format = "card" ->
                Printed("html",
                        <<text("<!DOCTYPE html>...<body>")>>
                        \o concat([i \in 1..Len(list) |-> card_block(list[i])])
                        \o <<text("</body></html>")>>)

\* The batch whose vouchers are printed, the formats a client asks for, and
\* voucher lists a client sends that no batch returned: the empty list, a
\* record without the optional fields, the same code twice, a record
\* without "code".
PrintBatches == {1}
FormatInputs == PrintFormats \cup {"pdf"}
ClientLists ==
    { <<>>,
      <<[code |-> make_code("V", 1)]>>,
      <<[code |-> make_code("V", 1), profile |-> "default", validity |-> "1d"],
        [code |-> make_code("V", 1), profile |-> "default", validity |-> "1d"]>>,
      <<[profile |-> "default"]>> }
ReturnedLists ==
    {bresp[b].vouchers : b \in {x \in PrintBatches : bresp[x].status = 200}}
PrintLists == ClientLists \cup ReturnedLists

InitPrint ==
    /\ prreq = NoPrintRequest
    /\ prresp = NoPrintResponse

\* POST /api/hotspot/print-vouchers
format_vouchers_for_print(list, format) ==
    /\ prreq' = [vouchers |-> list, format |-> format]
    /\ prresp' = print_response(list, format)
    /\ UNCHANGED voucherVars


(***************************************************************************)
(* Router adapter: api/mikrotik.py MikroTikService on the worker pool      *)
(***************************************************************************)

\* executor = ThreadPoolExecutor(max_workers=10)
POOL_SIZE == 10

\* Every service method (get_system_info ... create_hotspot_profile) has one
\* shape: an inner function that calls self._connect(creds), makes its
\* router calls on the returned api and returns or raises, handed to
\* _run_sync.  No method stores the connection or calls its disconnect();
\* the socket of a connection nothing refers to any more is closed when the
\* interpreter finalizes it, at a time the code does not control.
\* Operations are told apart only by their position, so each position is a
\* count of operations.
InitPool ==
    /\ submitted = 0
    /\ queued = 0
    /\ connecting = 0
    /\ calling = 0
    /\ unclosed = 0

\* _run_sync: loop.run_in_executor(executor, func) puts a work item on the
\* executor's queue; the handler awaits the future on the event loop.
run_sync ==
    /\ submitted < MaxRequests
    /\ submitted' = submitted + 1
    /\ queued' = queued + 1
    /\ UNCHANGED <<connecting, calling, unclosed>>

\* A worker thread (an idle one, or a new one while fewer than max_workers
\* exist) takes the oldest work item and enters self._connect(creds).
WorkerTake ==
    /\ queued > 0
    /\ connecting + calling < POOL_SIZE
    /\ queued' = queued - 1
    /\ connecting' = connecting + 1
    /\ UNCHANGED <<submitted, calling, unclosed>>

\* _connect: RouterOsApiPool(...).get_api() returns the api of a new
\* connection, or raises and the operation ends in HTTPException(503).
connect(ok) ==
    /\ connecting > 0
    /\ connecting' = connecting - 1
    /\ calling' = IF ok THEN calling + 1 ELSE calling
    /\ UNCHANGED <<submitted, queued, unclosed>>

\* The inner function returns its result or a router call raises: the
\* worker is free again.  The connection is left as it is.
OperationEnds ==
    /\ calling > 0
    /\ calling' = calling - 1
    /\ unclosed' = unclosed + 1
    /\ UNCHANGED <<submitted, queued, connecting>>

\* The interpreter finalizes a connection no operation refers to.
Finalize ==
    /\ unclosed > 0
    /\ unclosed' = unclosed - 1
    /\ UNCHANGED <<submitted, queued, connecting, calling>>


(***************************************************************************)
(* Device probe: api/devices.py                                            *)
(***************************************************************************)

STARLINK_IP   == "192.168.100.1"
GatewayIps    == {STARLINK_IP, "10.0.0.1"}

STARLINK_PORT == 9200
API_PORT      == 8728
WINBOX_PORT   == 8291
WEB_PORT      == 80
Ports         == {STARLINK_PORT, API_PORT, WINBOX_PORT, WEB_PORT}

PORT_TIMEOUT  == 2      \* check_port(..., timeout=2.0)
ACS_TIMEOUT   == 5      \* httpx.AsyncClient(timeout=5.0)
HTTP_TIMEOUT  == 3      \* httpx.AsyncClient(timeout=3.0, ...)

\* What the network does with one TCP connect, fixed when the connect is
\* issued:
\*   open    - connect_ex returns 0
\*   refused - connect_ex returns an errno
\*   silent  - no answer ever arrives
\*   error   - the socket call raises (unresolvable host, no descriptors)
\* "unprobed" marks a port no connect was issued to.
PortOutcomes == {"open", "refused", "silent", "error"}

\* What the auto-configuration server does with GET /devices?query=...:
\*   device - 200 and a non-empty list; empty - 200 and [] or another
\*   status; silent - no answer; error - httpx raises
AcsOutcomes == {"device", "empty", "silent", "error"}

\* What GET http://{ip}/ gives: a page carrying a vendor signature in its
\* body or server header, a page carrying none, no answer, or an exception.
HttpOutcomes == {"tp-link", "asus", "plain", "silent", "error"}

\* The four coroutines handed to asyncio.gather, in argument order.
STARLINK    == 1
MIKROTIK    == 2
TR069       == 3
FINGERPRINT == 4
Checks      == {STARLINK, MIKROTIK, TR069, FINGERPRINT}

DeviceInfo(t, man, mod, id, ip, capabilities) ==
    [device_type |-> t, manufacturer |-> man, model |-> mod, device_id |-> id,
     ip_address |-> ip, capabilities |-> capabilities]

\* A blocking call with a timeout returns whatever the network does; without
\* one (timeout 0) it returns only if the network answers.
call_returns(outcome, timeout) == outcome # "silent" \/ timeout > 0

\* A check_port that sets no timeout on its socket.
check_port_blocking(n, port) == call_returns(n.port[port], 0)

\* check_port: sock.settimeout(timeout) bounds the connect; the coroutine
\* resumes once connect_ex has returned or raised.
check_port_returns(n, port) == call_returns(n.port[port], PORT_TIMEOUT)

\* A check_port whose exception handler answers True.
check_port_except_true(n, port) == n.port[port] \in {"open", "error"}

\* check_port: result == 0; every exception gives False.
check_port(n, port) == n.port[port] = "open"

\* detect_starlink after check_port(ip, 9200)
starlink_info(ip, open) ==
    IF open
    THEN <<DeviceInfo("starlink", "SpaceX", "Starlink Dish", "None", ip,
                      <<"wifi_config", "status", "reboot", "stow">>)>>
    ELSE <<>>

\* detect_mikrotik: capabilities, and what capabilities.extend adds
mikrotik_base == <<"wifi_config", "status", "reboot">>
mikrotik_hotspot == <<"hotspot_users", "hotspot_vouchers", "hotspot_profiles">>

\* The hotspot capabilities added without looking at port 80.
extend_capabilities_always(capabilities, web_open) == capabilities \o mikrotik_hotspot

\* if await check_port(ip, 80): capabilities.extend([...])
extend_capabilities(capabilities, web_open) ==
    IF web_open THEN capabilities \o mikrotik_hotspot ELSE capabilities

mikrotik_info(ip, capabilities) ==
    <<DeviceInfo("mikrotik", "MikroTik", "None", "None", ip, capabilities)>>

\* detect_tr069_device: every exception and every non-200 gives None.
detect_tr069_device(ip, n) ==
    IF n.acs = "device"
    THEN <<DeviceInfo("tr069", "AcmeCPE", "HG-1", "dev-1", ip,
                      <<"wifi_config", "status", "reboot", "firmware_update">>)>>
    ELSE <<>>

\* detect_by_http_fingerprint: signature tests in source order.
detect_by_http_fingerprint(ip, n) ==
    CASE n.http = "tp-link" ->
            <<DeviceInfo("tr069", "TP-Link", "None", "None", ip,
                         <<"wifi_config", "status", "reboot">>)>>
      [] n.http = "d-link" ->
            <<DeviceInfo("tr069", "D-Link", "None", "None", ip,
                         <<"wifi_config", "status", "reboot">>)>>
      [] n.http = "asus" ->
            <<DeviceInfo("asus", "ASUS", "None", "None", ip,
                         <<"wifi_config", "status">>)>>
      [] n.http = "ubnt" ->
            <<DeviceInfo("ubiquiti", "Ubiquiti", "None", "None", ip, <<"status">>)>>
      [] OTHER -> <<>>

\* A collector that puts the first completed result in front.
gather_first_completed(res, first) ==
    IF first = 0 THEN [i \in 1..4 |-> res[i]]
    ELSE <<res[first]>> \o [i \in 1..4 |-> res[i]]

\* asyncio.gather(...): the result list is in argument order, whichever
\* check completed first.
gather(res, first) == [i \in 1..4 |-> res[i]]

\* for result in results: if isinstance(result, DeviceInfo): return result
\* ... return DeviceInfo(device_type="unknown", ip_address=ip, capabilities=[])
\* <<>> is a result that is no DeviceInfo (None: each check catches the
\* exceptions of its own calls).
first_match(list, ip) ==
    IF \E i \in 1..Len(list) : list[i] # <<>>
    THEN LET i == CHOOSE j \in 1..Len(list) :
                      /\ list[j] # <<>>
                      /\ \A k \in 1..(j-1) : list[k] = <<>>
         IN  list[i][1]
    ELSE DeviceInfo("unknown", "None", "None", "None", ip, <<>>)

NoNetwork == [port |-> [p \in Ports |-> "unprobed"], acs |-> "unprobed",
              http |-> "unprobed"]
NoDeviceInfo == DeviceInfo("", "", "", "", "", <<>>)

InitProbe ==
    /\ dpc = "idle"
    /\ dip = ""
    /\ net = NoNetwork
    /\ cpc = [c \in Checks |-> "idle"]
    /\ caps = <<>>
    /\ results = [c \in Checks |-> <<>>]
    /\ first_done = 0
    /\ dresp = NoDeviceInfo

\* POST /detect: the four coroutines are handed to asyncio.gather.
DetectRequest(ip) ==
    /\ dpc = "idle"
    /\ dip' = ip
    /\ dpc' = "gather"
    /\ cpc' = [c \in Checks |-> "start"]
    /\ UNCHANGED <<net, caps, results, first_done, dresp>>

\* A check returns: its result lands in its gather slot.
Complete(c, value) ==
    /\ results' = [results EXCEPT ![c] = value]
    /\ cpc' = [cpc EXCEPT ![c] = "done"]
    /\ first_done' = IF first_done = 0 THEN c ELSE first_done

\* A connect to the port is issued; o is what the network will do with it.
Connect(port, o) == net' = [net EXCEPT !.port[port] = o]

\* detect_starlink: if ip != "192.168.100.1": return None;
\* otherwise check_port(ip, 9200) is issued.
StarlinkStart(o) ==
    /\ dpc = "gather" /\ cpc[STARLINK] = "start"
    /\ IF dip # STARLINK_IP
       THEN /\ Complete(STARLINK, <<>>)
            /\ UNCHANGED net
       ELSE /\ Connect(STARLINK_PORT, o)
            /\ cpc' = [cpc EXCEPT ![STARLINK] = "port"]
            /\ UNCHANGED <<results, first_done>>
    /\ UNCHANGED <<dpc, dip, caps, dresp>>

\* detect_starlink: if await check_port(ip, 9200): return DeviceInfo(...)
StarlinkPort ==
    /\ dpc = "gather" /\ cpc[STARLINK] = "port"
    /\ check_port_returns(net, STARLINK_PORT)
    /\ Complete(STARLINK, starlink_info(dip, check_port(net, STARLINK_PORT)))
    /\ UNCHANGED <<dpc, dip, net, caps, dresp>>

\* detect_mikrotik: check_port(ip, 8728) is issued.
MikrotikStart(o) ==
    /\ dpc = "gather" /\ cpc[MIKROTIK] = "start"
    /\ Connect(API_PORT, o)
    /\ cpc' = [cpc EXCEPT ![MIKROTIK] = "api"]
    /\ UNCHANGED <<dpc, dip, caps, results, first_done, dresp>>

\* detect_mikrotik: api_port_open = await check_port(ip, 8728); then
\* check_port(ip, 8291) is issued.
MikrotikApiPort(o) ==
    /\ dpc = "gather" /\ cpc[MIKROTIK] = "api"
    /\ check_port_returns(net, API_PORT)
    /\ Connect(WINBOX_PORT, o)
    /\ cpc' = [cpc EXCEPT ![MIKROTIK] = "winbox"]
    /\ UNCHANGED <<dpc, dip, caps, results, first_done, dresp>>

\* detect_mikrotik: winbox_port_open = await check_port(ip, 8291);
\* if api_port_open or winbox_port_open: capabilities = [...] and
\* check_port(ip, 80) is issued; otherwise return None.
MikrotikWinboxPort(o) ==
    /\ dpc = "gather" /\ cpc[MIKROTIK] = "winbox"
    /\ check_port_returns(net, WINBOX_PORT)
    /\ IF check_port(net, API_PORT) \/ check_port(net, WINBOX_PORT)
       THEN /\ caps' = mikrotik_base
            /\ Connect(WEB_PORT, o)
            /\ cpc' = [cpc EXCEPT ![MIKROTIK] = "web"]
            /\ UNCHANGED <<results, first_done>>
       ELSE /\ Complete(MIKROTIK, <<>>)
            /\ UNCHANGED <<caps, net>>
    /\ UNCHANGED <<dpc, dip, dresp>>

\* detect_mikrotik: if await check_port(ip, 80): capabilities.extend([...]);
\* return DeviceInfo(...)
MikrotikWebPort ==
    /\ dpc = "gather" /\ cpc[MIKROTIK] = "web"
    /\ check_port_returns(net, WEB_PORT)
    /\ LET capabilities == extend_capabilities(caps, check_port(net, WEB_PORT))
       IN  /\ caps' = capabilities
           /\ Complete(MIKROTIK, mikrotik_info(dip, capabilities))
    /\ UNCHANGED <<dpc, dip, net, dresp>>

\* detect_tr069_device: client.get(GENIEACS_URL/devices) is issued.
Tr069Start(o) ==
    /\ dpc = "gather" /\ cpc[TR069] = "start"
    /\ net' = [net EXCEPT !.acs = o]
    /\ cpc' = [cpc EXCEPT ![TR069] = "get"]
    /\ UNCHANGED <<dpc, dip, caps, results, first_done, dresp>>

\* detect_tr069_device: the response, the timeout or the exception arrives.
Tr069Lookup ==
    /\ dpc = "gather" /\ cpc[TR069] = "get"
    /\ call_returns(net.acs, ACS_TIMEOUT)
    /\ Complete(TR069, detect_tr069_device(dip, net))
    /\ UNCHANGED <<dpc, dip, net, caps, dresp>>

\* detect_by_http_fingerprint: client.get(http://{ip}/) is issued.
FingerprintStart(o) ==
    /\ dpc = "gather" /\ cpc[FINGERPRINT] = "start"
    /\ net' = [net EXCEPT !.http = o]
    /\ cpc' = [cpc EXCEPT ![FINGERPRINT] = "get"]
    /\ UNCHANGED <<dpc, dip, caps, results, first_done, dresp>>

\* detect_by_http_fingerprint: the response, the timeout or the exception arrives.
FingerprintGet ==
    /\ dpc = "gather" /\ cpc[FINGERPRINT] = "get"
    /\ call_returns(net.http, HTTP_TIMEOUT)
    /\ Complete(FINGERPRINT, detect_by_http_fingerprint(dip, net))
    /\ UNCHANGED <<dpc, dip, net, caps, dresp>>

\* gather returns once all four are done; the loop over results answers.
DetectReturn ==
    /\ dpc = "gather"
    /\ \A c \in Checks : cpc[c] = "done"
    /\ dresp' = first_match(gather(results, first_done), dip)
    /\ dpc' = "done"
    /\ UNCHANGED <<dip, net, cpc, caps, results, first_done>>

(***************************************************************************)
(* Auto-configuration server adapter: api/tr069.py                         *)
(***************************************************************************)

\* WIFI_PARAMS: the parameter paths of the two data-model generations.
WIFI_PARAMS(table) ==
    CASE table = "default" ->
            [ssid     |-> "InternetGatewayDevice.LANDevice.1.WLANConfiguration.1.SSID",
             password |-> "InternetGatewayDevice.LANDevice.1.WLANConfiguration.1.PreSharedKey.1.PreSharedKey",
             enabled  |-> "InternetGatewayDevice.LANDevice.1.WLANConfiguration.1.Enable",
             channel  |-> "InternetGatewayDevice.LANDevice.1.WLANConfiguration.1.Channel"]
      [] table = "tr181" ->
            [ssid     |-> "Device.WiFi.SSID.1.SSID",
             password |-> "Device.WiFi.AccessPoint.1.Security.KeyPassphrase",
             enabled  |-> "Device.WiFi.SSID.1.Enable",
             channel  |-> "Device.WiFi.Radio.1.Channel"]

\* list(params.values()): the paths in the order the table declares them.
values(params) == <<params.ssid, params.password, params.enabled, params.channel>>

\* param.split('.')[-1]
last_component(param) ==
    CASE param = WIFI_PARAMS("default").ssid     -> "SSID"
      [] param = WIFI_PARAMS("default").password -> "PreSharedKey"
      [] param = WIFI_PARAMS("default").enabled  -> "Enable"
      [] param = WIFI_PARAMS("default").channel  -> "Channel"
      [] param = WIFI_PARAMS("tr181").ssid       -> "SSID"
      [] param = WIFI_PARAMS("tr181").password   -> "KeyPassphrase"
      [] param = WIFI_PARAMS("tr181").enabled    -> "Enable"
      [] param = WIFI_PARAMS("tr181").channel    -> "Channel"

\* The device documents the auto-configuration server holds: the root
\* objects a device reported, each with the names of its children.  A
\* device of the legacy generation has no "Device" key.
AcsDevices ==
    {[_id |-> "cpe-igd", _lastInform |-> "t0",
      InternetGatewayDevice |-> {"DeviceInfo", "LANDevice"}],
     [_id |-> "cpe-dev", _lastInform |-> "t0",
      Device |-> {"DeviceInfo", "WiFi"}]}
DeviceIds == {d._id : d \in AcsDevices} \cup {"cpe-none"}
NoDevice == [_id |-> "", _lastInform |-> ""]

\* _get_wifi_params with the legacy table for every device.
get_wifi_params_default_only(device) == WIFI_PARAMS("default")

\* _get_wifi_params: device.get("Device", {}) is tested for truth.
get_wifi_params(device) ==
    IF get(device, "Device", {}) # {} THEN WIFI_PARAMS("tr181")
    ELSE WIFI_PARAMS("default")

\* Optional[...] request fields: <<>> is None, <<v>> a value.
\* class WifiSettings
WifiSettings(ssid, password, channel, enabled) ==
    [ssid |-> ssid, password |-> password, channel |-> channel, enabled |-> enabled]
NoSettings == WifiSettings(<<>>, <<>>, <<>>, <<>>)
SettingsInputs ==
    {WifiSettings(s, p, c, e) :
        s \in {<<>>, <<"home">>}, p \in {<<>>, <<"secret-key">>},
        c \in {<<>>, <<6>>}, e \in {<<>>, <<TRUE>>, <<FALSE>>}}

\* How the server answers one request of _request: a body, an empty body,
\* a status >= 400, or no answer at all (the HTTP client raises).
AcsAnswers == {"body", "empty", "status_502", "unreachable"}

\* The remote calls of the adapter.  "answer" is not part of the call: it
\* records what the server answered.
\* get_device: GET /devices?query={"_id": device_id}
device_query(device_id, answer) ==
    [kind |-> "device", device |-> device_id, path |-> "", value |-> "",
     connection_request |-> FALSE, answer |-> answer]
\* get_device_parameters: GET /devices/{device_id}/parameters/{param}
parameter_read(device_id, param, answer) ==
    [kind |-> "parameter", device |-> device_id, path |-> param, value |-> "",
     connection_request |-> FALSE, answer |-> answer]
\* set_device_parameter: POST /devices/{device_id}/tasks?connection_request=true
\* with the task {"name": "setParameterValues", "parameterValues": [[p, v, ...]]}
set_device_parameter(device_id, parameter, value, answer) ==
    [kind |-> "task", device |-> device_id, path |-> parameter, value |-> value,
     connection_request |-> TRUE, answer |-> answer]

\* _request raising: HTTPException(response.status_code, "GenieACS error: ...")
\* for a status >= 400; an httpx error reaches main.py's handler.
AcsError(answer) ==
    IF answer = "status_502"
    THEN [status |-> 502, detail |-> "GenieACS error"]
    ELSE [status |-> 500, detail |-> "Internal server error"]

\* The fields update_wifi_settings looks at, in the order of its "if"s.
UpdateFields == <<"ssid", "password", "enabled">>

\* The value a field is sent with: the string itself, "1"/"0" for enabled.
task_value(field, v) ==
    IF field = "enabled" THEN (IF v THEN "1" ELSE "0") ELSE v

\* The position of the first "if" at or after i whose field is not None
\* (one past the last "if" when there is none).
RECURSIVE next_field(_, _)
next_field(settings, i) ==
    IF i > Len(UpdateFields) THEN i
    ELSE IF settings[UpdateFields[i]] # <<>> THEN i
    ELSE next_field(settings, i + 1)

NoAcsRequest == [header |-> <<>>, at |-> 0, op |-> "", device_id |-> "",
                 settings |-> NoSettings]
NoAcsResponse == [status |-> 0, detail |-> ""]

\* The token login issued to subscriber 1 when the process started.
SubscriberToken ==
    create_access_token([customer_id |-> 1, uisp_customer_id |-> "7",
                         email |-> "alice@x", uisp_token |-> "x-auth-alice"], 0)
AcsHeaders == {<<>>, <<SubscriberToken>>, <<ForeignToken>>, <<NotAJwt>>}

InitAcs ==
    /\ apc = "idle"
    /\ areq = NoAcsRequest
    /\ adevice = NoDevice
    /\ ai = 0
    /\ acalls = <<>>
    /\ aresult = <<>>
    /\ atasks = <<>>
    /\ acsTasks = <<>>
    /\ aresp = NoAcsResponse

\* A route that dispatches to the adapter without its token dependency.
cpe_update_wifi_settings_unverified(h, d, s) ==
    /\ apc = "idle"
    /\ areq' = [header |-> h, at |-> now, op |-> "update_wifi", device_id |-> d,
                settings |-> s]
    /\ IF next_field(s, 1) > Len(UpdateFields)
       THEN /\ aresp' = [status |-> 200, detail |-> "Settings queued for device update"]
            /\ apc' = "done"
            /\ ai' = ai
       ELSE /\ ai' = next_field(s, 1)
            /\ apc' = "device"
            /\ aresp' = aresp
    /\ UNCHANGED <<adevice, acalls, aresult, atasks, acsTasks>>

\* PUT /devices/{device_id}/wifi: Depends(verify_token), tasks = [], and the
\* "if"s up to the first field that is not None.
cpe_update_wifi_settings(h, d, s) ==
    /\ apc = "idle"
    /\ areq' = [header |-> h, at |-> now, op |-> "update_wifi", device_id |-> d,
                settings |-> s]
    /\ LET v == verify_token(h, now)
       IN  IF v.status # 200
           THEN /\ aresp' = [status |-> v.status, detail |-> v.detail]
                /\ apc' = "done"
                /\ ai' = ai
           ELSE IF next_field(s, 1) > Len(UpdateFields)
           THEN /\ aresp' = [status |-> 200, detail |-> "Settings queued for device update"]
                /\ apc' = "done"
                /\ ai' = ai
           ELSE /\ ai' = next_field(s, 1)
                /\ apc' = "device"
                /\ aresp' = aresp
    /\ UNCHANGED <<adevice, acalls, aresult, atasks, acsTasks>>

\* GET /devices/{device_id}/wifi: Depends(verify_token), then
\* tr069_service.get_wifi_settings(device_id).
cpe_get_wifi_settings(h, d) ==
    /\ apc = "idle"
    /\ areq' = [header |-> h, at |-> now, op |-> "get_wifi", device_id |-> d,
                settings |-> NoSettings]
    /\ LET v == verify_token(h, now)
       IN  IF v.status # 200
           THEN /\ aresp' = [status |-> v.status, detail |-> v.detail]
                /\ apc' = "done"
           ELSE /\ apc' = "device"
                /\ aresp' = aresp
    /\ UNCHANGED <<adevice, ai, acalls, aresult, atasks, acsTasks>>

\* The documents the server finds for a device id.
devices_of(device_id) == {d \in AcsDevices : d._id = device_id}

\* get_device(device_id): one query; "if devices: return devices[0]", else
\* 404.  Called at the start of get_wifi_settings and of every set_wifi_*.
get_device(answer) ==
    /\ apc = "device"
    /\ acalls' = Append(acalls, device_query(areq.device_id, answer))
    /\ IF answer \in {"status_502", "unreachable"}
       THEN /\ aresp' = AcsError(answer)
            /\ apc' = "done"
            /\ UNCHANGED <<adevice, ai>>
       ELSE IF answer = "empty" \/ devices_of(areq.device_id) = {}
       THEN /\ aresp' = [status |-> 404, detail |-> "Device not found"]
            /\ apc' = "done"
            /\ UNCHANGED <<adevice, ai>>
       ELSE /\ adevice' = CHOOSE d \in devices_of(areq.device_id) : TRUE
            /\ apc' = IF areq.op = "get_wifi" THEN "read" ELSE "submit"
            /\ ai' = IF areq.op = "get_wifi" THEN 1 ELSE ai
            /\ aresp' = aresp
    /\ UNCHANGED <<areq, aresult, atasks, acsTasks>>

\* get_device_parameters whose first failed read fails the request.
ParameterRead_failing(answer) ==
    /\ apc = "read"
    /\ LET param == values(get_wifi_params(adevice))[ai]
       IN  /\ acalls' = Append(acalls, parameter_read(areq.device_id, param, answer))
           /\ IF answer \in {"status_502", "unreachable"}
              THEN /\ aresp' = AcsError(answer)
                   /\ apc' = "done"
                   /\ UNCHANGED <<ai, aresult>>
              ELSE /\ aresult' = IF answer = "body"
                                 THEN (last_component(param) :> "data") @@ aresult
                                 ELSE aresult
                   /\ ai' = ai + 1
                   /\ apc' = IF ai = Len(values(get_wifi_params(adevice)))
                             THEN "done" ELSE "read"
                   /\ aresp' = IF ai = Len(values(get_wifi_params(adevice)))
                               THEN [status |-> 200, detail |-> ""] ELSE aresp
    /\ UNCHANGED <<areq, adevice, atasks, acsTasks>>

\* One iteration of get_device_parameters on list(params.values()): the
\* read of a path; "if data: result[...] = data"; any exception is logged
\* and the loop goes on.  After the last path the map is returned.
ParameterRead(answer) ==
    /\ apc = "read"
    /\ LET param == values(get_wifi_params(adevice))[ai]
       IN  /\ acalls' = Append(acalls, parameter_read(areq.device_id, param, answer))
           /\ aresult' = IF answer = "body"
                         THEN (last_component(param) :> "data") @@ aresult
                         ELSE aresult
    /\ ai' = ai + 1
    /\ apc' = IF ai = Len(values(get_wifi_params(adevice))) THEN "done" ELSE "read"
    /\ aresp' = IF ai = Len(values(get_wifi_params(adevice)))
                THEN [status |-> 200, detail |-> ""] ELSE aresp
    /\ UNCHANGED <<areq, adevice, atasks, acsTasks>>

\* set_wifi_ssid / set_wifi_password / set_wifi_enabled after get_device:
\* the task is posted; the server queues it or the post fails.  On success
\* the endpoint appends to "tasks" and goes on to the next field that is
\* not None, or returns.
TaskSubmit(answer) ==
    /\ apc = "submit"
    /\ LET field == UpdateFields[ai]
           call == set_device_parameter(areq.device_id,
                                        get_wifi_params(adevice)[field],
                                        task_value(field, areq.settings[field][1]),
                                        answer)
       IN  /\ acalls' = Append(acalls, call)
           /\ IF answer \in {"status_502", "unreachable"}
              THEN /\ aresp' = AcsError(answer)
                   /\ apc' = "done"
                   /\ UNCHANGED <<ai, atasks, acsTasks>>
              ELSE /\ acsTasks' = Append(acsTasks, call)
                   /\ atasks' = Append(atasks, field)
                   /\ ai' = next_field(areq.settings, ai + 1)
                   /\ IF next_field(areq.settings, ai + 1) > Len(UpdateFields)
                      THEN /\ apc' = "done"
                           /\ aresp' = [status |-> 200,
                                        detail |-> "Settings queued for device update"]
                      ELSE /\ apc' = "device"
                           /\ aresp' = aresp
    /\ UNCHANGED <<areq, adevice, aresult>>

(***************************************************************************)
(* Router WiFi settings: api/mikrotik.py                                   *)
(***************************************************************************)

\* The wireless interfaces a router can have, in the order /interface/wireless
\* lists them, and the security profile it has.
IfaceOrder == <<"wlan1", "wlan2">>
IfaceNames == {IfaceOrder[i] : i \in 1..Len(IfaceOrder)}
ProfileInputs == {"default", "guest"}

\* class WifiSettings (mikrotik.py): Optional fields are <<>> (None) or <<v>>.
RouterWifiSettings(ssid, password, security_profile) ==
    [ssid |-> ssid, password |-> password, security_profile |-> security_profile]
RouterSettingsInputs ==
    {RouterWifiSettings(s, p, sp) :
        s \in {<<>>, <<"">>, <<"cafe">>}, p \in {<<>>, <<"">>, <<"new-key">>},
        sp \in ProfileInputs}

\* "if settings.password:" - None and the empty string are false.
truthy(field) == field # <<>> /\ field[1] # ""

NoWifiResponse == [status |-> 0, detail |-> ""]

InitWifi ==
    /\ wInterfaces = [n \in {"wlan1"} |-> "old-ssid"]
    /\ wProfiles = [n \in {"default"} |-> "old-key"]
    /\ wpc = "idle"
    /\ wreq = RouterWifiSettings(<<>>, <<>>, "default")
    /\ wlist = <<>>
    /\ wi = 0
    /\ wresults = <<>>
    /\ wresp = NoWifiResponse

\* The router's administrator adds or removes wireless interfaces (a router
\* without a radio has none).
RouterConfigured(names) ==
    /\ wpc = "idle"
    /\ wInterfaces' = [n \in names |-> "old-ssid"]
    /\ wProfiles' = [n \in {"default"} |-> "old-key"]
    /\ UNCHANGED <<wpc, wreq, wlist, wi, wresults, wresp>>

\* What follows the password step of update_wifi_settings.
after_password(settings) == IF truthy(settings.ssid) THEN "list" ELSE "done"

WifiDone(status, detail) == [status |-> status, detail |-> detail]

\* PUT /wifi: results = {} and the first "if".
update_wifi_settings(settings) ==
    /\ wpc = "idle"
    /\ wreq' = settings
    /\ wresults' = <<>>
    /\ wlist' = <<>>
    /\ wi' = 0
    /\ wpc' = IF truthy(settings.password) THEN "password" ELSE after_password(settings)
    /\ wresp' = IF ~truthy(settings.password) /\ ~truthy(settings.ssid)
                THEN WifiDone(200, "") ELSE NoWifiResponse
    /\ UNCHANGED <<wInterfaces, wProfiles>>

\* results["password_updated"] = await set_wifi_password(creds, profile, password):
\* _connect, security.get(name=profile), security.set(...) if it was found.
set_wifi_password(ok) ==
    /\ wpc = "password"
    /\ IF ~ok
       THEN /\ wresp' = WifiDone(503, "Cannot connect to MikroTik")
            /\ wpc' = "done"
            /\ UNCHANGED <<wProfiles, wresults>>
       ELSE /\ wProfiles' = IF wreq.security_profile \in DOMAIN wProfiles
                            THEN [wProfiles EXCEPT ![wreq.security_profile] =
                                                        wreq.password[1]]
                            ELSE wProfiles
            /\ wresults' = ("password_updated" :>
                                (wreq.security_profile \in DOMAIN wProfiles)) @@ wresults
            /\ wpc' = after_password(wreq)
            /\ wresp' = IF after_password(wreq) = "done"
                        THEN WifiDone(200, "") ELSE wresp
    /\ UNCHANGED <<wInterfaces, wreq, wlist, wi>>

\* wifi = await get_wifi_settings(creds); the loop over wifi["interfaces"]
\* starts; with no interface it ends at once and results["ssid_updated"] = True.
get_wifi_settings(ok) ==
    /\ wpc = "list"
    /\ IF ~ok
       THEN /\ wresp' = WifiDone(503, "Cannot connect to MikroTik")
            /\ wpc' = "done"
            /\ UNCHANGED <<wlist, wi, wresults>>
       ELSE LET interfaces == SelectSeq(IfaceOrder, LAMBDA n : n \in DOMAIN wInterfaces)
            IN  /\ wlist' = interfaces
                /\ wi' = 1
                /\ IF interfaces = <<>>
                   THEN /\ wresults' = ("ssid_updated" :> TRUE) @@ wresults
                        /\ wpc' = "done"
                        /\ wresp' = WifiDone(200, "")
                   ELSE /\ wpc' = "ssid"
                        /\ UNCHANGED <<wresults, wresp>>
    /\ UNCHANGED <<wInterfaces, wProfiles, wreq>>

\* await set_wifi_ssid(creds, interface["name"], settings.ssid) for one
\* interface of the list: _connect, wireless.get(name=...), wireless.set if
\* it was found; the returned bool is dropped.  After the last interface
\* results["ssid_updated"] = True and the endpoint returns.
set_wifi_ssid(ok) ==
    /\ wpc = "ssid"
    /\ IF ~ok
       THEN /\ wresp' = WifiDone(503, "Cannot connect to MikroTik")
            /\ wpc' = "done"
            /\ UNCHANGED <<wInterfaces, wi, wresults>>
       ELSE /\ wInterfaces' = IF wlist[wi] \in DOMAIN wInterfaces
                              THEN [wInterfaces EXCEPT ![wlist[wi]] = wreq.ssid[1]]
                              ELSE wInterfaces
            /\ wi' = wi + 1
            /\ IF wi = Len(wlist)
               THEN /\ wresults' = ("ssid_updated" :> TRUE) @@ wresults
                    /\ wpc' = "done"
                    /\ wresp' = WifiDone(200, "")
               ELSE UNCHANGED <<wpc, wresults, wresp>>
    /\ UNCHANGED <<wProfiles, wreq, wlist>>

\* The response was read; the next request can be served.
WifiNext ==
    /\ wpc = "done"
    /\ wpc' = "idle"
    /\ UNCHANGED <<wInterfaces, wProfiles, wreq, wlist, wi, wresults, wresp>>

(***************************************************************************)
(* Specifications                                                          *)
(***************************************************************************)
Init ==
    /\ InitLogin /\ InitVoucher /\ InitProbe /\ InitToken /\ InitPrint /\ InitPool
    /\ InitAcs /\ InitRefresh /\ InitWifi

LoginFrame   == UNCHANGED <<voucherVars, probeVars, tokenVars, printVars, poolVars, acsVars,
                           refreshVars, wifiVars>>
VoucherFrame == UNCHANGED <<loginVars, probeVars, tokenVars, printVars, poolVars, acsVars,
                           refreshVars, wifiVars>>
ProbeFrame   == UNCHANGED <<loginVars, voucherVars, tokenVars, printVars, poolVars, acsVars,
                           refreshVars, wifiVars>>
TokenFrame   == UNCHANGED <<voucherVars, probeVars, printVars, poolVars, acsVars,
                           refreshVars, wifiVars>>
PrintFrame   == UNCHANGED <<loginVars, probeVars, tokenVars, poolVars, acsVars,
                           refreshVars, wifiVars>>
PoolFrame    == UNCHANGED <<loginVars, voucherVars, probeVars, tokenVars, printVars, acsVars,
                           refreshVars, wifiVars>>
AcsFrame     == UNCHANGED <<loginVars, voucherVars, probeVars, tokenVars, printVars, poolVars,
                           refreshVars, wifiVars>>
RefreshFrame == UNCHANGED <<voucherVars, probeVars, tokenVars, printVars, poolVars, acsVars,
                           wifiVars>>
WifiFrame    == UNCHANGED <<loginVars, voucherVars, probeVars, tokenVars, printVars, poolVars,
                           acsVars, refreshVars>>

NextLogin ==
    \/ \E r \in Logins, u \in Usernames, p \in Passwords :
            LoginRequest(r, u, p) /\ LoginFrame
    \/ \E r \in Logins, n \in NetOutcomes : LoginAuthenticate(r, n) /\ LoginFrame
    \/ \E r \in Logins : LoginSelect(r) /\ LoginFrame
    \/ \E r \in Logins : LoginCommit(r) /\ LoginFrame
    \/ \E r \in Logins : LoginToken(r) /\ LoginFrame

NextVoucher ==
    \/ \E b \in Batches, p \in PresetInputs, c \in Counts :
            generate_quick_vouchers(b, p, c) /\ VoucherFrame
    \/ \E b \in Batches, d \in DirectInputs, c \in Counts :
            generate_vouchers(b, d, c) /\ VoucherFrame
    \/ \E b \in Batches, ok \in BOOLEAN : BatchConnect(b, ok) /\ VoucherFrame
    \/ \E b \in Batches, s \in Suffixes : draw_code(b, s) /\ VoucherFrame
    \/ \E b \in Batches, a \in BOOLEAN : BatchAdd(b, a) /\ VoucherFrame
    \/ \E b \in Batches : BatchReturn(b) /\ VoucherFrame

NextProbe ==
    \/ \E ip \in GatewayIps : DetectRequest(ip) /\ ProbeFrame
    \/ \E o \in PortOutcomes : StarlinkStart(o) /\ ProbeFrame
    \/ StarlinkPort /\ ProbeFrame
    \/ \E o \in PortOutcomes : MikrotikStart(o) /\ ProbeFrame
    \/ \E o \in PortOutcomes : MikrotikApiPort(o) /\ ProbeFrame
    \/ \E o \in PortOutcomes : MikrotikWinboxPort(o) /\ ProbeFrame
    \/ MikrotikWebPort /\ ProbeFrame
    \/ \E o \in AcsOutcomes : Tr069Start(o) /\ ProbeFrame
    \/ Tr069Lookup /\ ProbeFrame
    \/ \E o \in HttpOutcomes : FingerprintStart(o) /\ ProbeFrame
    \/ FingerprintGet /\ ProbeFrame
    \/ DetectReturn /\ ProbeFrame

\* Logins that succeed or fail, the clock, and the two protected routes.
NextToken ==
    \/ \E r \in TokenLogins, u \in TokenUsers :
            LoginRequest(r, u, "good") /\ LoginFrame
    \/ \E r \in TokenLogins, n \in NetOutcomes : LoginAuthenticate(r, n) /\ LoginFrame
    \/ \E r \in TokenLogins : LoginSelect(r) /\ LoginFrame
    \/ \E r \in TokenLogins : LoginCommit(r) /\ LoginFrame
    \/ \E r \in TokenLogins : LoginToken(r) /\ LoginFrame
    \/ Tick /\ TokenFrame
    \/ \E h \in Headers : get_current_user(h) /\ TokenFrame
    \/ \E h \in Headers : get_billing_profile(h) /\ TokenFrame
    \/ \E a \in PlatformAnswers : BillingAnswer(a) /\ TokenFrame

\* One batch of quick vouchers is issued; voucher lists are printed.
NextPrint ==
    \/ \E b \in PrintBatches, p \in PresetInputs, c \in Counts :
            generate_quick_vouchers(b, p, c) /\ VoucherFrame
    \/ \E b \in PrintBatches, ok \in BOOLEAN : BatchConnect(b, ok) /\ VoucherFrame
    \/ \E b \in PrintBatches, s \in Suffixes : draw_code(b, s) /\ VoucherFrame
    \/ \E b \in PrintBatches, a \in BOOLEAN : BatchAdd(b, a) /\ VoucherFrame
    \/ \E b \in PrintBatches : BatchReturn(b) /\ VoucherFrame
    \/ \E l \in PrintLists, f \in FormatInputs :
            format_vouchers_for_print(l, f) /\ PrintFrame

NextPool ==
    \/ run_sync /\ PoolFrame
    \/ WorkerTake /\ PoolFrame
    \/ \E ok \in BOOLEAN : connect(ok) /\ PoolFrame
    \/ OperationEnds /\ PoolFrame
    \/ Finalize /\ PoolFrame

\* WiFi reads and updates of a CPE through the auto-configuration server.
NextAcs ==
    \/ Tick /\ TokenFrame
    \/ \E h \in AcsHeaders, d \in DeviceIds : cpe_get_wifi_settings(h, d) /\ AcsFrame
    \/ \E h \in AcsHeaders, d \in DeviceIds, s \in SettingsInputs :
            cpe_update_wifi_settings(h, d, s) /\ AcsFrame
    \/ \E a \in AcsAnswers : get_device(a) /\ AcsFrame
    \/ \E a \in AcsAnswers : ParameterRead(a) /\ AcsFrame
    \/ \E a \in AcsAnswers : TaskSubmit(a) /\ AcsFrame

\* A login, the clock, and refreshes of the tokens in circulation.
NextRefresh ==
    \/ \E r \in TokenLogins, u \in TokenUsers :
            LoginRequest(r, u, "good") /\ LoginFrame
    \/ \E r \in TokenLogins, n \in NetOutcomes : LoginAuthenticate(r, n) /\ LoginFrame
    \/ \E r \in TokenLogins : LoginSelect(r) /\ LoginFrame
    \/ \E r \in TokenLogins : LoginCommit(r) /\ LoginFrame
    \/ \E r \in TokenLogins : LoginToken(r) /\ LoginFrame
    \/ Tick /\ TokenFrame
    \/ \E h \in RefreshHeaders : refresh_token(h) /\ RefreshFrame

\* WiFi updates of a router whose interfaces the administrator configures.
NextWifi ==
    \/ \E names \in SUBSET IfaceNames : RouterConfigured(names) /\ WifiFrame
    \/ \E s \in RouterSettingsInputs : update_wifi_settings(s) /\ WifiFrame
    \/ \E ok \in BOOLEAN : set_wifi_password(ok) /\ WifiFrame
    \/ \E ok \in BOOLEAN : get_wifi_settings(ok) /\ WifiFrame
    \/ \E ok \in BOOLEAN : set_wifi_ssid(ok) /\ WifiFrame
    \/ WifiNext /\ WifiFrame

SpecLogin   == Init /\ [][NextLogin]_vars
SpecWifi    == Init /\ [][NextWifi]_vars
SpecRefresh == Init /\ [][NextRefresh]_vars
SpecAcs     == Init /\ [][NextAcs]_vars
SpecPool    == Init /\ [][NextPool]_vars
SpecPrint   == Init /\ [][NextPrint]_vars
SpecToken   == Init /\ [][NextToken]_vars
SpecVoucher == Init /\ [][NextVoucher]_vars
SpecProbe   == Init /\ [][NextProbe]_vars

\* The steps of each check coroutine.
CheckStep(c) ==
    CASE c = STARLINK ->
            (\E o \in PortOutcomes : StarlinkStart(o) /\ ProbeFrame)
               \/ (StarlinkPort /\ ProbeFrame)
      [] c = MIKROTIK ->
            (\E o \in PortOutcomes : MikrotikStart(o) /\ ProbeFrame)
               \/ (\E o \in PortOutcomes : MikrotikApiPort(o) /\ ProbeFrame)
               \/ (\E o \in PortOutcomes : MikrotikWinboxPort(o) /\ ProbeFrame)
               \/ (MikrotikWebPort /\ ProbeFrame)
      [] c = TR069 ->
            (\E o \in AcsOutcomes : Tr069Start(o) /\ ProbeFrame)
               \/ (Tr069Lookup /\ ProbeFrame)
      [] c = FINGERPRINT ->
            (\E o \in HttpOutcomes : FingerprintStart(o) /\ ProbeFrame)
               \/ (FingerprintGet /\ ProbeFrame)

\* The event loop runs every task that is ready: a check whose call has
\* returned is resumed, and the handler is resumed once gather is complete.
SpecProbeFair ==
    /\ Init /\ [][NextProbe]_vars
    /\ \A c \in Checks : WF_vars(CheckStep(c))
    /\ WF_vars(DetectReturn /\ ProbeFrame)

(***************************************************************************)
(* Properties                                                              *)
(***************************************************************************)

\* The external customer id login() computed for request r.
LoginUid(r) == uisp_customer_id_of(auth_result[r][1])

\* Request r was accepted by the billing platform: authenticate() returned.
Authenticated(r) == auth_result[r] # <<>>

\* C1: the customers table never holds two rows with the same external
\* customer id, whatever the order and interleaving of the logins; the
\* second of two logins for one identity adds no row.
C1_OneRowPerExternalId ==
    \A c1 \in customers, c2 \in customers :
        c1.uisp_customer_id = c2.uisp_customer_id => c1 = c2

\* C1 witness: two logins for one identity both read "no row" before either
\* committed; both have finished and the table holds one row for that identity.
C1_RaceWitness ==
    \E r1 \in Logins, r2 \in Logins :
        /\ r1 # r2
        /\ lpc[r1] = "done" /\ lpc[r2] = "done"
        /\ Authenticated(r1) /\ Authenticated(r2)
        /\ LoginUid(r1) = LoginUid(r2)
        /\ lresp[r1].status = 200
        /\ lcustomer[r2] = <<>>
        /\ lresp[r2].status = 401
        /\ Cardinality({c \in customers : c.uisp_customer_id = LoginUid(r1)}) = 1

\* C2 (as claimed): every login the billing platform accepted ends with a
\* token, and the customer_id decoded from it is the id of the customers row
\* of the authenticated external customer id.
C2_AcceptedLoginGetsMatchingToken ==
    \A r \in Logins :
        (lpc[r] = "done" /\ Authenticated(r)) =>
            /\ lresp[r].status = 200
            /\ lresp[r].token # <<>>
            /\ LET decoded == jwt_decode(lresp[r].token[1], SECRET_KEY, now)
               IN  /\ decoded.ok = "ok"
                   /\ \E c \in customers :
                        /\ c.uisp_customer_id = LoginUid(r)
                        /\ c.id = decoded.payload.customer_id

\* The codes of a list of voucher records are pairwise distinct.
DistinctCodes(list) ==
    \A i \in 1..Len(list), j \in 1..Len(list) :
        i # j => list[i].code # list[j].code

\* C3 (as claimed): in every batch returned, no two voucher records carry
\* the same code.
C3_BatchCodesDistinct ==
    \A b \in Batches : bresp[b].status = 200 => DistinctCodes(bresp[b].vouchers)

\* The hotspot users on the router that batch b created.
CreatedBy(b) == {u \in routerUsers : u.by = b}

\* C4: a quick-voucher request with a valid preset and count N whose adds the
\* router all accepted returns exactly N records, each with the profile and
\* the validity of the requested preset ("1day": profile "1day", validity
\* "1d"), and the router holds exactly N users created by the request.
C4_QuickBatchComplete ==
    \A b \in Batches :
        (bresp[b].status = 200 /\ breq[b].preset # "") =>
            /\ breq[b].preset \in PresetNames
            /\ Len(bresp[b].vouchers) = breq[b].count
            /\ \A i \in 1..Len(bresp[b].vouchers) :
                 /\ bresp[b].vouchers[i].profile = VOUCHER_PRESETS(breq[b].preset).profile
                 /\ bresp[b].vouchers[i].validity = VOUCHER_PRESETS(breq[b].preset).validity
                 /\ breq[b].preset = "1day" =>
                        /\ bresp[b].vouchers[i].profile = "1day"
                        /\ bresp[b].vouchers[i].validity = "1d"
            /\ Cardinality(CreatedBy(b)) = breq[b].count

\* C4 witness: a "1day" request for MaxCount vouchers was answered in full.
C4_Witness ==
    \E b \in Batches :
        /\ bresp[b].status = 200
        /\ breq[b].preset = "1day"
        /\ breq[b].count = MaxCount
        /\ Len(bresp[b].vouchers) = MaxCount

\* Batch b ended with a rejected add after at least one accepted add.
PartialFailure(b) ==
    bpc[b] = "done" /\ bresp[b].status # 200 /\ Len(vouchers[b]) > 0

\* Batch b asked for codes, ended in failure and registered none.
TotalFailure(b) ==
    /\ bpc[b] = "done" /\ bresp[b].status # 200
    /\ breq[b].count > 0 /\ Len(vouchers[b]) = 0

\* C5 (as claimed): the answer to a batch whose k-th add (k > 1) was rejected
\* differs from the answer to every batch that registered no code, and it
\* lists the codes that were registered.
C5_PartialFailureReported ==
    \A b \in Batches :
        PartialFailure(b) =>
            /\ \A t \in Batches : TotalFailure(t) => bresp[b] # bresp[t]
            /\ bresp[b].vouchers = vouchers[b]

StarlinkMatches == dip = STARLINK_IP /\ net.port[STARLINK_PORT] = "open"
MikrotikMatches == net.port[API_PORT] = "open" \/ net.port[WINBOX_PORT] = "open"
Tr069Matches    == net.acs = "device"
HttpMatches     == net.http \in {"tp-link", "d-link", "asus", "ubnt"}

\* C7: the answer is the match of the first check that matched in the order
\* satellite terminal, router, registry, fingerprint, whichever check
\* completed first; for 192.168.100.1 with port 9200 open it is the
\* satellite family.
C7_FirstMatchInFixedOrder ==
    dpc = "done" =>
        /\ StarlinkMatches =>
                /\ dresp.device_type = "starlink"
                /\ dresp.manufacturer = "SpaceX"
        /\ (~StarlinkMatches /\ MikrotikMatches) => dresp.device_type = "mikrotik"
        /\ (~StarlinkMatches /\ ~MikrotikMatches /\ Tr069Matches) =>
                /\ dresp.device_type = "tr069"
                /\ dresp.device_id = "dev-1"
        /\ (~StarlinkMatches /\ ~MikrotikMatches /\ ~Tr069Matches /\ HttpMatches) =>
                /\ dresp.device_id = "None"
                /\ dresp.manufacturer \in {"TP-Link", "D-Link", "ASUS", "Ubiquiti"}

\* C7 witness: the satellite port is open, the router, the registry and the
\* fingerprint match as well, the registry lookup completed first, and the
\* answer is the satellite family.
C7_Witness ==
    /\ dpc = "done"
    /\ StarlinkMatches /\ MikrotikMatches /\ Tr069Matches /\ HttpMatches
    /\ first_done = TR069
    /\ dresp.device_type = "starlink"

\* C8: detect_device always answers with a classification; a check whose
\* network call raised counts as no match for that check only; the answer
\* is "unknown" with no capabilities exactly when no check matched.
C8_ErrorsAreNoMatch ==
    dpc = "done" =>
        /\ dresp.device_type \in
              {"starlink", "mikrotik", "tr069", "asus", "ubiquiti", "unknown"}
        /\ dresp.ip_address = dip
        /\ dresp.device_type = "unknown" <=>
              ~(StarlinkMatches \/ MikrotikMatches \/ Tr069Matches \/ HttpMatches)
        /\ dresp.device_type = "unknown" <=> dresp.capabilities = <<>>

\* C8 witness: the three port checks and the registry lookup raised, the
\* fingerprint matched, and the answer is the fingerprint's match.
C8_Witness ==
    /\ dpc = "done"
    /\ dip = STARLINK_IP
    /\ net.port[STARLINK_PORT] = "error"
    /\ net.port[API_PORT] = "error"
    /\ net.port[WINBOX_PORT] = "error"
    /\ net.acs = "error"
    /\ net.http = "tp-link"
    /\ dresp.manufacturer = "TP-Link"

\* C9: when the satellite check does not match and port 8728 or 8291 is
\* open, the answer is the router family with capabilities wifi_config,
\* status, reboot, followed by the three hotspot capabilities if and only if
\* port 80 is open.
C9_RouterCapabilities ==
    (dpc = "done" /\ ~StarlinkMatches /\ MikrotikMatches) =>
        /\ dresp.device_type = "mikrotik"
        /\ dresp.capabilities =
              IF net.port[WEB_PORT] = "open"
              THEN <<"wifi_config", "status", "reboot",
                     "hotspot_users", "hotspot_vouchers", "hotspot_profiles">>
              ELSE <<"wifi_config", "status", "reboot">>

\* C9 witness: the satellite address with port 9200 closed, the WinBox port
\* open and port 80 not open: the router family with the base capabilities.
C9_Witness ==
    /\ dpc = "done"
    /\ dip = STARLINK_IP
    /\ net.port[STARLINK_PORT] = "refused"
    /\ net.port[API_PORT] = "refused"
    /\ net.port[WINBOX_PORT] = "open"
    /\ net.port[WEB_PORT] = "silent"
    /\ dresp.device_type = "mikrotik"
    /\ Len(dresp.capabilities) = 3

\* Check c of the request in flight has not returned yet.
Running(c) == dpc = "gather" /\ cpc[c] # "done"

\* C10: the four checks run independently (a check that has not returned
\* can always take its next step, wherever the other three are) and the
\* request always gets its answer, also when calls get no answer from the
\* network.
C10_IndependentAndReturns ==
    /\ [](\A c \in Checks : Running(c) => ENABLED CheckStep(c))
    /\ (dpc = "gather") ~> (dpc = "done")

\* C10 witness: three calls of the request never got an answer, the
\* fingerprint check returned while the others were still running, and the
\* request was answered.
C10_Witness ==
    /\ dpc = "done"
    /\ net.port[API_PORT] = "silent"
    /\ net.acs = "silent"
    /\ net.http = "silent"
    /\ first_done = FINGERPRINT


(***************************************************************************)
(* Token verification (SpecToken)                                          *)
(***************************************************************************)

\* The credential of a header is a token (a JWT signed with some key).
CarriesToken(h) == h # <<>> /\ h[1] # NotAJwt

\* GET /api/auth/me has been served.
MeServed == vresp.status # 0

\* GET /api/billing/profile has been answered or has reached the platform.
ProfileServed == presp.status # 0 \/ ppc = "platform"

\* C11 as stated: verify_token rejects every token whose expiry instant has
\* passed with 401 "Token has expired" and never with "Invalid token",
\* whatever the token's content and whatever key signed it.
C11_ExpiredNeverInvalid ==
    (MeServed /\ CarriesToken(vresp.header)
              /\ vresp.header[1].exp <= vresp.at)
        => (vresp.status = 401 /\ vresp.detail = "Token has expired")

\* C11 amended: an expired token signed with the key of the verifying process
\* is rejected with 401 "Token has expired"; a token signed with another key
\* is rejected with 401 "Invalid token", expired or not.
C11_ExpiredUnderOwnKey ==
    (MeServed /\ CarriesToken(vresp.header))
        => /\ (vresp.header[1].key = SECRET_KEY /\ vresp.header[1].exp <= vresp.at)
                => (vresp.status = 401 /\ vresp.detail = "Token has expired")
           /\ vresp.header[1].key # SECRET_KEY
                => (vresp.status = 401 /\ vresp.detail = "Invalid token")

\* A token issued by login is presented at its expiry instant or later.
C11_Witness ==
    /\ MeServed /\ CarriesToken(vresp.header)
    /\ vresp.header[1] \in IssuedTokens
    /\ vresp.header[1].exp <= vresp.at
    /\ vresp.detail = "Token has expired"

\* The case a request falls in: no header, a malformed or wrongly signed
\* token, an expired token, or a valid one.
TokenCase(req) ==
    IF req.header = <<>> THEN "missing"
    ELSE IF req.header[1].key # SECRET_KEY THEN "invalid"
    ELSE IF req.header[1].exp <= req.at THEN "expired"
    ELSE "valid"

\* The response to the billing profile request, while it is known.
ProfileRejected == presp.status # 0 /\ ppc = "idle" /\ TokenCase(preq) # "valid"

\* C12: on every protected route a request without authorization header, one
\* with a malformed or wrongly signed token and one with an expired token
\* each get 401, and requests of two different cases get different messages.
C12_ThreeUnauthorizedMessages ==
    /\ (MeServed /\ TokenCase(vresp) # "valid") => vresp.status = 401
    /\ ProfileRejected => presp.status = 401
    /\ (MeServed /\ TokenCase(vresp) # "valid" /\ ProfileRejected
            /\ TokenCase(vresp) # TokenCase(preq))
          => vresp.detail # presp.detail

\* C13: a token created by create_access_token, verified before its expiry
\* under the same key, yields the payload it was created from: every field
\* of the data is in the verified payload with the same value.
C13_RoundTrip ==
    (MeServed /\ TokenCase(vresp) = "valid")
        => /\ vresp.status = 200
           /\ \A f \in DOMAIN vresp.header[1].payload :
                 /\ f \in DOMAIN vresp.token[1]
                 /\ vresp.token[1][f] = vresp.header[1].payload[f]

InvalidPreset(b) ==
    bpc[b] # "idle" /\ breq[b].preset \notin PresetNames \cup {""}

\* C15: a quick-voucher request whose preset is not in VOUCHER_PRESETS is
\* answered 400 for every count, and it never gets as far as the router: no
\* connection is opened for it, no code is drawn, no hotspot user is added.
C15_InvalidPresetRejected ==
    \A b \in Batches :
        InvalidPreset(b) =>
            /\ bpc[b] = "done"
            /\ bresp[b].status = 400
            /\ bresp[b].vouchers = <<>>
            /\ bcode[b] = NoCode /\ bi[b] = 0 /\ vouchers[b] = <<>>
            /\ CreatedBy(b) = {}

\* A request for several vouchers of an unknown preset has been refused
\* while the other batch has users on the router.
C15_Witness ==
    \E b \in Batches :
        /\ InvalidPreset(b) /\ breq[b].count = MaxCount
        /\ bresp[b].status = 400
        /\ routerUsers # {}


\* C17: a print request whose format is not thermal, a4 or card is answered
\* 400 "Invalid format" and carries no content, whatever the voucher list:
\* empty, records without the optional fields, records without a code.
C17_InvalidFormatRejected ==
    (prresp.status # 0 /\ prreq.format \notin PrintFormats)
        => /\ prresp.status = 400
           /\ prresp.detail = "Invalid format"
           /\ prresp.format = "" /\ prresp.content = <<>>

\* A list whose record has no optional field was sent with an unknown format.
C17_Witness ==
    /\ prreq.format = "pdf"
    /\ prreq.vouchers = <<[code |-> make_code("V", 1)]>>
    /\ prresp.status = 400

\* Occurrences of a piece in rendered content, and the codes it prints.
Count(content, piece) == Cardinality({i \in DOMAIN content : content[i] = piece})
IsCode(piece) == piece[2] # 0
A4BlockOpening ==
    text("<div class=voucher><div>WiFi Voucher</div><div class=code>")

\* The a4 rendering of a list a batch returned, its codes pairwise distinct.
A4OfBatch ==
    /\ prresp.status = 200 /\ prreq.format = "a4"
    /\ prreq.vouchers \in ReturnedLists
    /\ DistinctCodes(prreq.vouchers)

AllOperationsEnded ==
    submitted > 0 /\ queued = 0 /\ connecting = 0 /\ calling = 0

\* C19: every router operation closes the connection it opened: once the
\* operations requested so far have all ended, in success or in error, no
\* connection opened by them is still open.
C19_ConnectionsClosed ==
    AllOperationsEnded => unclosed = 0

\* Workers inside an operation, and router sessions that are open.
BusyWorkers == connecting + calling
OpenSessions == calling + unclosed

\* C20: with any number of router requests in flight, the router sessions
\* open at the same time never exceed the pool size, and neither do the
\* operations running on workers.
C20_SessionsBounded ==
    /\ BusyWorkers <= POOL_SIZE
    /\ OpenSessions <= POOL_SIZE

(***************************************************************************)
(* Router failures (SpecVoucher)                                           *)
(***************************************************************************)

\* Batch b reached the router adapter and ended in an error: the connection
\* failed, or the router rejected a call made on the open connection.
RouterFailure(b) ==
    bpc[b] = "done" /\ bresp[b].status \notin {200, 400}

\* C21 (as claimed): every failure of a router operation, of the connection
\* or of a call made after it, is answered 503 with its cause, never with
\* the generic internal error.
C21_RouterFailuresAre503 ==
    \A b \in Batches :
        RouterFailure(b) =>
            /\ bresp[b].status = 503
            /\ bresp[b].detail # "Internal server error"

(***************************************************************************)
(* CPE WiFi through the auto-configuration server (SpecAcs)                *)
(***************************************************************************)

\* The paths of a table, and the table of a device's generation: modern
\* when the device document has the root object "Device".
TablePaths(table) ==
    {values(WIFI_PARAMS(table))[i] : i \in 1..Len(values(WIFI_PARAMS(table)))}
Generation(device) == IF "Device" \in DOMAIN device THEN "tr181" ELSE "default"

\* C22: every read or write of a WiFi parameter comes after a successful
\* fetch of the device document (a write directly after it), and its path
\* belongs to the table of the device's generation: Device.* paths exactly
\* for a device whose document has the modern root object,
\* InternetGatewayDevice.* paths otherwise, never a mix.
C22_PathsOfMatchingTable ==
    \A i \in 1..Len(acalls) :
        acalls[i].kind # "device" =>
            /\ acalls[i].path \in TablePaths(Generation(adevice))
            /\ adevice \in AcsDevices /\ adevice._id = acalls[i].device
            /\ \E j \in 1..(i - 1) :
                    acalls[j].kind = "device" /\ acalls[j].answer = "body"
            /\ acalls[i].kind = "task" =>
                    acalls[i - 1].kind = "device" /\ acalls[i - 1].answer = "body"

\* C22 witness: the password of a modern-generation device has been set
\* through the modern path, after its SSID.
C22_Witness ==
    /\ "Device" \in DOMAIN adevice
    /\ \E i \in 1..Len(acalls) :
            /\ acalls[i].kind = "task"
            /\ acalls[i].path = "Device.WiFi.AccessPoint.1.Security.KeyPassphrase"
    /\ \E i \in 1..Len(acalls) :
            /\ acalls[i].kind = "task"
            /\ acalls[i].path = "Device.WiFi.SSID.1.SSID"

\* The parameter reads of the request so far, in the order they were made.
ParameterReads == SelectSeq(acalls, LAMBDA c : c.kind = "parameter")

\* C23: get_device_parameters makes one read per requested path, in the
\* order of the list, whatever the earlier reads answered; it never fails:
\* once the device was fetched the request ends with 200 after all reads;
\* the map it returns has an entry exactly for the paths whose read
\* answered with data, none for a failed read.
C23_PartialMapNeverFails ==
    (areq.op = "get_wifi" /\ adevice # NoDevice) =>
        /\ \A i \in 1..Len(ParameterReads) :
                ParameterReads[i].path = values(get_wifi_params(adevice))[i]
        /\ apc = "read" => Len(ParameterReads) = ai - 1
        /\ apc = "done" =>
                /\ Len(ParameterReads) = Len(values(get_wifi_params(adevice)))
                /\ aresp.status = 200
        /\ DOMAIN aresult =
                {last_component(ParameterReads[i].path) :
                    i \in {k \in 1..Len(ParameterReads) :
                                ParameterReads[k].answer = "body"}}

\* C23 witness: the first read failed upstream, the second returned data,
\* the third hit a network error, the fourth returned data; the request
\* ended with the two entries.
C23_Witness ==
    /\ areq.op = "get_wifi" /\ apc = "done" /\ aresp.status = 200
    /\ Len(ParameterReads) = 4
    /\ ParameterReads[1].answer = "status_502"
    /\ ParameterReads[2].answer = "body"
    /\ ParameterReads[3].answer = "unreachable"
    /\ ParameterReads[4].answer = "body"
    /\ DOMAIN aresult = {"PreSharedKey", "Channel"}

\* The verification of the request the adapter is serving.
AcsVerified == verify_token(areq.header, areq.at).status = 200

\* C24: within a request, verification comes before dispatch: a remote call
\* is made, and a task queued, only for a request whose token verify_token
\* accepted; a request verify_token rejected is answered with the rejection
\* and has made no call and changed nothing.
C24_VerifyPrecedesDispatch ==
    /\ (acalls # <<>> \/ acsTasks # <<>>) => AcsVerified
    /\ (apc # "idle" /\ ~AcsVerified) =>
            /\ apc = "done"
            /\ aresp.status = verify_token(areq.header, areq.at).status
            /\ acalls = <<>> /\ acsTasks = <<>> /\ atasks = <<>>
            /\ adevice = NoDevice /\ aresult = <<>>

\* C24 witness: an update request that carried an expired token was
\* answered 401 without any call.
C24_Witness ==
    /\ areq.op = "update_wifi" /\ areq.settings.ssid # <<>>
    /\ areq.header = <<SubscriberToken>>
    /\ aresp = [status |-> 401, detail |-> "Token has expired"]
    /\ acalls = <<>>

\* The fields of the request that were given a value.
AllFields == {"ssid", "password", "channel", "enabled"}
GivenFields == {f \in AllFields : areq.settings[f] # <<>>}
TasksFor(f) ==
    {i \in 1..Len(acsTasks) : acsTasks[i].path = get_wifi_params(adevice)[f]}

\* C27 (as claimed): the update submits one set-parameter task, with the
\* connection-request flag, for every field given a value, channel
\* included, in the order ssid, password, enabled; tasks submitted before
\* a failed submission stay queued.
C27_EveryGivenFieldSubmitted ==
    areq.op = "update_wifi" =>
        /\ \A i \in 1..Len(acsTasks) : acsTasks[i].connection_request
        /\ \A i, j \in 1..Len(acsTasks) :
                i < j => \E m, n \in 1..Len(UpdateFields) :
                            /\ m < n
                            /\ acsTasks[i].path = get_wifi_params(adevice)[UpdateFields[m]]
                            /\ acsTasks[j].path = get_wifi_params(adevice)[UpdateFields[n]]
        /\ Len(acsTasks) = Len(atasks)
        /\ (apc = "done" /\ aresp.status = 200) =>
                \A f \in GivenFields : Cardinality(TasksFor(f)) = 1

(***************************************************************************)
(* Voucher batches without rollback (SpecVoucher)                          *)
(***************************************************************************)

\* The router holds, from batch b, a hotspot user made for record v.
Registered(b, v) ==
    \E u \in CreatedBy(b) :
        /\ u.name = v.code /\ u.password = v.code
        /\ u.profile = breq[b].profile /\ u.limit_uptime = breq[b].validity
        /\ v.profile = breq[b].profile /\ v.validity = breq[b].validity

\* C25: at every point of a batch each record of the result list is a code
\* the router accepted as a hotspot user of the requested profile and
\* validity; when an add is rejected the users added before it stay on the
\* router and the response carries no code; a batch with count <= 0 adds
\* no user and returns the empty list.
C25_NoRollbackOnlyRegistered ==
    \A b \in Batches :
        /\ \A i \in 1..Len(vouchers[b]) : Registered(b, vouchers[b][i])
        /\ \A i \in 1..Len(bresp[b].vouchers) : Registered(b, bresp[b].vouchers[i])
        /\ Cardinality(CreatedBy(b)) = Len(vouchers[b])
        /\ (bpc[b] = "done" /\ bresp[b].status = 500) =>
                /\ bresp[b].vouchers = <<>>
                /\ Cardinality(CreatedBy(b)) = bi[b]
        /\ (bpc[b] = "done" /\ bresp[b].status = 200 /\ breq[b].count <= 0) =>
                /\ bresp[b].vouchers = <<>>
                /\ CreatedBy(b) = {}

\* C25 witness: the second add of a batch was rejected: the user of the
\* first add is on the router, the response is an error without codes.
C25_Witness ==
    \E b \in Batches :
        /\ bpc[b] = "done" /\ bresp[b].status = 500 /\ bresp[b].vouchers = <<>>
        /\ bi[b] = 1 /\ Cardinality(CreatedBy(b)) = 1

(***************************************************************************)
(* External ids of Subscriber rows (SpecLogin)                             *)
(***************************************************************************)

\* The platform's customer id of the user of login request r, as a string.
PlatformCustomerId(r) == ToString(PlatformUser(lreq[r].username).clientId)

\* C26 (as claimed): every row login created has a non-empty external id,
\* and the row a login resolves to carries the platform's customer id of
\* the user who logged in, so two platform customers never share a row;
\* also when the customer-detail request did not answer 200.
C26_ExternalIdIsPlatformId ==
    /\ \A c \in customers : c.uisp_customer_id # ""
    /\ \A r \in Logins :
            lcustomer[r] # <<>> =>
                lcustomer[r][1].uisp_customer_id = PlatformCustomerId(r)
    /\ \A r, q \in Logins :
            (lcustomer[r] # <<>> /\ lcustomer[q] # <<>>
                /\ PlatformCustomerId(r) # PlatformCustomerId(q)) =>
                    lcustomer[r][1].id # lcustomer[q][1].id

(***************************************************************************)
(* Token refresh (SpecRefresh)                                             *)
(***************************************************************************)

IdentityFields == {"customer_id", "uisp_customer_id", "email"}

\* C28: every token a chain of refreshes returns carries the subscriber id,
\* external id and email of a token login issued, and nothing else of it:
\* the billing platform's session token is absent; its expiry is a full
\* lifetime after the refresh; a token whose expiry has passed is never
\* refreshed.
C28_RefreshPreservesIdentity ==
    /\ \A t \in refreshed :
            /\ DOMAIN t.payload = IdentityFields
            /\ t.key = SECRET_KEY
            /\ \E l \in IssuedTokens :
                    /\ "uisp_token" \in DOMAIN l.payload
                    /\ \A f \in IdentityFields : t.payload[f] = l.payload[f]
    /\ rresp.status = 200 =>
            /\ rresp.header[1].exp > rresp.at
            /\ rresp.token[1] \in refreshed
            /\ rresp.token[1].exp = rresp.at + JWT_EXPIRATION_HOURS
            /\ \A f \in IdentityFields :
                    rresp.token[1].payload[f] = rresp.header[1].payload[f]
    /\ (rresp.header # <<>> /\ rresp.header[1].exp <= rresp.at) =>
            rresp.status = 401 /\ rresp.token = <<>>

\* C28 witness: a token that was itself returned by a refresh has been
\* refreshed at a later time, after the login token expired.
C28_Witness ==
    /\ rresp.status = 200
    /\ rresp.header[1] \in refreshed
    /\ "uisp_token" \notin DOMAIN rresp.header[1].payload
    /\ rresp.token[1].exp > rresp.header[1].exp
    /\ \E l \in IssuedTokens : l.exp <= rresp.at

(***************************************************************************)
(* Router WiFi update (SpecWifi)                                           *)
(***************************************************************************)

Reported(key) == key \in DOMAIN wresults /\ wresults[key]

\* C29 (as claimed): the response reports ssid_updated only if the router
\* has at least one wireless interface and all of them carry the requested
\* SSID, and password_updated only if the named security profile exists and
\* carries the requested key; an empty-string field changes nothing and
\* reports nothing.
C29_ReportsOnlyChangesMade ==
    (wpc = "done" /\ wresp.status = 200) =>
        /\ Reported("ssid_updated") =>
                /\ DOMAIN wInterfaces # {}
                /\ \A n \in DOMAIN wInterfaces : wInterfaces[n] = wreq.ssid[1]
        /\ Reported("password_updated") =>
                /\ wreq.security_profile \in DOMAIN wProfiles
                /\ wProfiles[wreq.security_profile] = wreq.password[1]
        /\ wreq.ssid = <<"">> => "ssid_updated" \notin DOMAIN wresults
        /\ wreq.password = <<"">> => "password_updated" \notin DOMAIN wresults

(***************************************************************************)
(* Login failures after the platform accepted the credentials (SpecLogin)  *)
(***************************************************************************)

\* Login request r ended in an error after authenticate had returned.
FailedAfterAccept(r) ==
    lpc[r] = "done" /\ auth_result[r] # <<>> /\ lresp[r].status # 200

\* C30 (as claimed): login answers 401 only when the platform did not accept
\* the credentials: a failure after authenticate returned (the insert of the
\* new row refused by a unique constraint) is answered with another status.
C30_Unauthorized_OnlyOnBadCredentials ==
    \A r \in Logins : FailedAfterAccept(r) => lresp[r].status # 401

=============================================================================
